---- MODULE Spec2Model ----
(***************************************************************************)
(* Lampira chat client: the SSE stream decoder (fetchStream) and the chat  *)
(* session (sendUserMessage / cancelCurrentRequest and the stream          *)
(* callbacks) as one state machine.                                        *)
(*                                                                         *)
(* Text is a sequence of tokens.  A token is a string standing for a run   *)
(* of characters that is never cut further: "NL" is a newline, "CR" and    *)
(* "SP" are white space, "DATA" is the prefix `data: ', ":" starts a       *)
(* comment, "{" and "}" delimit a JSON object and the remaining tokens are *)
(* the members of that object.  A network chunk is any run of tokens, so a *)
(* chunk boundary may fall inside a line and inside a JSON object.         *)
(***************************************************************************)
EXTENDS Integers, Sequences, FiniteSets, TLC

(* ------------------------------ bounds -------------------------------- *)

\* lines of one response body in the single-turn specifications
MaxLines == 2

\* turns (accepted sendUserMessage calls) in the session specification
MaxTurns == 3

\* lines of one response body in the session specification
MaxSessionLines == 1

(* ------------------------------ helpers ------------------------------- *)

Last(s) == s[Len(s)]

Front(s) == SubSeq(s, 1, Len(s) - 1)

IsPrefix(s, t) == Len(s) <= Len(t) /\ SubSeq(t, 1, Len(s)) = s

SeqsUpTo(S, n) == UNION { [1..k -> S] : k \in 0..n }

(* --------------------------- text and lines --------------------------- *)

WhiteSpace == {"CR", "SP"}

\* String.prototype.trim
RECURSIVE TrimLeft(_)
TrimLeft(s) ==
    IF s # << >> /\ Head(s) \in WhiteSpace THEN TrimLeft(Tail(s)) ELSE s

RECURSIVE TrimRight(_)
TrimRight(s) ==
    IF s # << >> /\ Last(s) \in WhiteSpace THEN TrimRight(Front(s)) ELSE s

Trim(s) == TrimRight(TrimLeft(s))

\* String.prototype.split('\n'): k newlines give k+1 pieces
RECURSIVE SplitAcc(_, _, _)
SplitAcc(s, cur, acc) ==
    IF s = << >> THEN Append(acc, cur)
    ELSE IF Head(s) = "NL" THEN SplitAcc(Tail(s), << >>, Append(acc, cur))
    ELSE SplitAcc(Tail(s), Append(cur, Head(s)), acc)

Split(s) == SplitAcc(s, << >>, << >>)

(* ------------------------------- JSON --------------------------------- *)

\* `new URL(url).hostname' of the citation urls of the model
Hostname(url) == IF url = "u1" THEN "h1" ELSE "h2"

NoAnnotation ==
    [type |-> "", hasCitation |-> FALSE, url |-> "", title |-> "",
     start_index |-> 0, end_index |-> 0, c_start |-> 0, c_end |-> 0]

\* one entry of delta.annotations: start_index/end_index are the members of
\* the entry itself, c_start/c_end those inside its url_citation object
\* (0 stands for an absent member)
Annotation(url, title) ==
    [type |-> "url_citation", hasCitation |-> TRUE, url |-> url,
     title |-> title, start_index |-> 0, end_index |-> 0,
     c_start |-> 3, c_end |-> 7]

EmptyObject ==
    [hasError |-> FALSE, code |-> 0, content |-> << >>,
     annotations |-> << >>, finish |-> "", usage |-> 0]

\* the members a JSON object of the model can have
Members ==
    {"c:a", "c:b", "c:", "ann:u1:A", "ann:u1:B", "ann:u2:", "ann:file",
     "err:429", "err:", "fin:stop", "fin:length", "fin:error", "use:1",
     "use:2"}

\* the object with one more member
AddMember(o, m) ==
    CASE m = "c:a" -> [o EXCEPT !.content = <<"a">>]
      [] m = "c:b" -> [o EXCEPT !.content = <<"b">>]
      [] m = "c:" -> [o EXCEPT !.content = << >>]
      [] m = "ann:u1:A" ->
            [o EXCEPT !.annotations = Append(@, Annotation("u1", "A"))]
      [] m = "ann:u1:B" ->
            [o EXCEPT !.annotations = Append(@, Annotation("u1", "B"))]
      [] m = "ann:u2:" ->
            [o EXCEPT !.annotations = Append(@, Annotation("u2", ""))]
      [] m = "ann:file" ->
            [o EXCEPT !.annotations =
                Append(@, [NoAnnotation EXCEPT !.type = "file_citation"])]
      [] m = "err:429" -> [o EXCEPT !.hasError = TRUE, !.code = 429]
      [] m = "err:" -> [o EXCEPT !.hasError = TRUE, !.code = 0]
      [] m = "fin:stop" -> [o EXCEPT !.finish = "stop"]
      [] m = "fin:length" -> [o EXCEPT !.finish = "length"]
      [] m = "fin:error" -> [o EXCEPT !.finish = "error"]
      [] m = "use:1" -> [o EXCEPT !.usage = 1]
      [] m = "use:2" -> [o EXCEPT !.usage = 2]
      [] OTHER -> o

RECURSIVE AddMembers(_, _)
AddMembers(o, ms) ==
    IF ms = << >> THEN o ELSE AddMembers(AddMember(o, Head(ms)), Tail(ms))

\* JSON.parse: a text parses when it is "{" members "}"; anything else
\* (a truncated object, stray tokens) is a SyntaxError
JSONParses(data) ==
    /\ Len(data) >= 2
    /\ Head(data) = "{"
    /\ Last(data) = "}"
    /\ \A i \in 2..(Len(data) - 1) : data[i] \in Members

JSONParse(data) == AddMembers(EmptyObject, SubSeq(data, 2, Len(data) - 1))

(* ------------------- fetchStream: the stream decoder ------------------ *)

\* a callback of fetchStream with its arguments
Cb(name, delta, content, sources, usage, code) ==
    [cb |-> name, delta |-> delta, content |-> content,
     sources |-> sources, usage |-> usage, code |-> code]

\* the variables fetchStream keeps across reads, `cbs' the callbacks issued
\* by the step being taken, `ctl' how that step left the read loop
\* ("run": still reading, "stop": a terminator was parsed, "return": the
\* function returned, "throw": an exception reached the catch block,
\* `err' its status)
NewDecoder ==
    [buffer |-> << >>, fullContent |-> << >>, annotations |-> << >>,
     usage |-> 0, streamCompleted |-> FALSE,
     cbs |-> << >>, ctl |-> "run", err |-> 0]

EmitFirst(d, c) == [d EXCEPT !.cbs = <<c>> \o @]

Emit(d, c) == [d EXCEPT !.cbs = Append(@, c)]

Throw(d, status) == [d EXCEPT !.ctl = "throw", !.err = status]

IsTerminatorNever(data) == FALSE

\* stream termination signals
IsTerminator(data) ==
    data = <<"[DONE]">> \/ data = <<"done">> \/ data = << >>

ErrorStatusFixed(parsed) == 500

\* status of the APIError of a payload with an `error' member
ErrorStatus(parsed) == IF parsed.code # 0 THEN parsed.code ELSE 500

AccumulateReplaced(fullContent, content) == content

\* fullContent += content
Accumulate(fullContent, content) == fullContent \o content

ExistsNever(annotations, url) == FALSE

\* annotations.some(a => a.url === url)
Exists(annotations, url) ==
    \E i \in 1..Len(annotations) : annotations[i].url = url

\* the citation pushed for an annotation
Citation(annotation) ==
    [url |-> annotation.url,
     title |-> IF annotation.title # "" THEN annotation.title
               ELSE Hostname(annotation.url),
     startIndex |-> annotation.start_index,
     endIndex |-> annotation.end_index]

\* the loop over delta.annotations
RECURSIVE ExtractAnnotations(_, _)
ExtractAnnotations(d, as) ==
    IF as = << >> THEN d
    ELSE LET a == Head(as) IN
         IF a.type = "url_citation" /\ a.hasCitation
            /\ ~Exists(d.annotations, a.url)
         THEN LET pushed == Append(d.annotations, Citation(a)) IN
              ExtractAnnotations(
                  Emit([d EXCEPT !.annotations = pushed],
                       Cb("onAnnotations", << >>, << >>, pushed, 0, 0)),
                  Tail(as))
         ELSE ExtractAnnotations(d, Tail(as))

OnSyntaxErrorThrown(d) == Throw(d, 0)

\* what the catch block of parseSSEData does with a SyntaxError
OnSyntaxError(d) == d

IsFinishErrorAny(finishReason) == finishReason # ""

\* if (finishReason) { if (finishReason === 'error') throw
IsFinishError(finishReason) == finishReason = "error"

\* parseSSEData: ctl "stop" is the return value false, "run" is true
ParseSSEData(d, data) ==
    IF IsTerminator(data) THEN [d EXCEPT !.ctl = "stop"]
    ELSE IF ~JSONParses(data) THEN OnSyntaxError(d)
    ELSE LET parsed == JSONParse(data) IN
         IF parsed.hasError THEN Throw(d, ErrorStatus(parsed))
         ELSE LET full == Accumulate(d.fullContent, parsed.content)
                  d1 == IF parsed.content # << >>
                        THEN Emit([d EXCEPT !.fullContent = full],
                                  Cb("onChunk", parsed.content, full,
                                     << >>, 0, 0))
                        ELSE d
                  d2 == ExtractAnnotations(d1, parsed.annotations)
              IN IF IsFinishError(parsed.finish) THEN Throw(d2, 500)
                 ELSE IF parsed.usage # 0
                      THEN [d2 EXCEPT !.usage = parsed.usage]
                      ELSE d2

\* trimmedLine.startsWith('data: '): a trimmed line that starts with the
\* prefix has a non-blank payload, `data:' alone lost the blank
StartsWithData(line) == Len(line) >= 2 /\ Head(line) = "DATA"

OnCompleteCb(d) ==
    Cb("onComplete", << >>, d.fullContent, d.annotations, d.usage, 0)

IncludesProcessingAny(line) == TRUE

\* trimmedLine.includes('OPENROUTER PROCESSING')
IncludesProcessing(line) == \E i \in 1..Len(line) : line[i] = "PROC"

\* the for loop over the complete lines of one read
RECURSIVE ProcessLines(_, _)
ProcessLines(d, lines) ==
    IF lines = << >> \/ d.ctl # "run" THEN d
    ELSE LET line == Trim(Head(lines)) IN
         IF line # << >> /\ Head(line) = ":"
         THEN ProcessLines(
                  IF IncludesProcessing(line)
                  THEN Emit(d, Cb("onProcessing", << >>, << >>, << >>, 0, 0))
                  ELSE d,
                  Tail(lines))
         ELSE IF line = << >> THEN ProcessLines(d, Tail(lines))
         ELSE IF StartsWithData(line)
         THEN LET r == ParseSSEData(d, Tail(line)) IN
              IF r.ctl = "stop"
              THEN Emit([r EXCEPT !.streamCompleted = TRUE,
                                  !.ctl = "return"], OnCompleteCb(r))
              ELSE ProcessLines(r, Tail(lines))
         ELSE ProcessLines(d, Tail(lines))

KeepFragmentDropped(lines) == << >>

\* the fragment kept in the buffer: lines.pop() || ''
KeepFragment(lines) == Last(lines)

\* one iteration of the read loop with a chunk: `cbs' holds the callbacks
\* it issued
OnRead(d0, value) ==
    LET d == [d0 EXCEPT !.cbs = << >>]
        lines == Split(d.buffer \o value)
    IN ProcessLines([d EXCEPT !.buffer = KeepFragment(lines)], Front(lines))

\* the flush of the remaining buffer when the transport closed
RECURSIVE FlushLines(_, _)
FlushLines(d, lines) ==
    IF lines = << >> \/ d.ctl # "run" THEN d
    ELSE LET line == Trim(Head(lines)) IN
         IF StartsWithData(line)
         THEN FlushLines(ParseSSEData(d, Tail(line)), Tail(lines))
         ELSE FlushLines(d, Tail(lines))

OnDoneUnflushed(d0) ==
    LET d == [d0 EXCEPT !.cbs = << >>]
    IN Emit([d EXCEPT !.streamCompleted = TRUE, !.ctl = "return"],
            OnCompleteCb(d))

\* the iteration of the read loop that sees done: the flush, then the
\* onComplete after the loop
OnDone(d0) ==
    LET d == [d0 EXCEPT !.cbs = << >>]
        f == IF Trim(d.buffer) # << >> THEN FlushLines(d, Split(d.buffer))
             ELSE d
    IN IF f.ctl = "throw" THEN f
       ELSE Emit([f EXCEPT !.streamCompleted = TRUE, !.ctl = "return"],
                 OnCompleteCb(f))

IsAbortErrorNever(name) == FALSE

\* error.name === 'AbortError'
IsAbortError(name) == name = "AbortError"

OnCatchUsageDropped(d0, name, status) ==
    LET d == [d0 EXCEPT !.ctl = "return"] IN
    IF IsAbortError(name)
    THEN Emit(d, Cb("onComplete", << >>, d.fullContent, d.annotations, 0, 0))
    ELSE Emit(d, Cb("onError", << >>, << >>, << >>, 0, status))

\* the catch block of fetchStream for an error of the given name and status
OnCatch(d0, name, status) ==
    LET d == [d0 EXCEPT !.ctl = "return"] IN
    IF IsAbortError(name) THEN Emit(d, OnCompleteCb(d))
    ELSE Emit(d, Cb("onError", << >>, << >>, << >>, 0, status))

CaughtCompleted(d) ==
    IF d.ctl = "throw"
    THEN OnCatch(Emit(d, OnCompleteCb(d)), "APIError", d.err)
    ELSE d

\* a step of the decoder followed by the catch block when it threw
Caught(d) == IF d.ctl = "throw" THEN OnCatch(d, "APIError", d.err) ELSE d

(* --------------------------- the chat session ------------------------- *)

VARIABLES
    history,                \* ids of the messages of the conversation
    msgs,                   \* the message objects, msgs[id]
    stored,                 \* the working copy in localStorage (chatHistory)
    savedChats,             \* the saved chats in localStorage, by chat id
    storageFull,            \* localStorage.setItem throws (quota exceeded)
    currentChatId,          \* 0 is null
    isLoading,
    currentAbortController, \* the turn whose controller it is, 0 is null
    turns,                  \* the calls of sendUserMessage that were accepted
    events,                 \* what eventBus.emit was called with, in order
    bus,                    \* the subscribers of eventBus and their calls
    ret                     \* outcome of the last call of the service

vars == <<history, msgs, stored, savedChats, storageFull, currentChatId,
          isLoading, currentAbortController, turns, events, bus, ret>>

SystemPrompt == <<"system-prompt">>

Message(id, role, content, sources, images) ==
    [id |-> id, role |-> role, content |-> content, sources |-> sources,
     images |-> images]

Ev(type, turn, delta, content, sources, usage, code) ==
    [type |-> type, turn |-> turn, delta |-> delta, content |-> content,
     sources |-> sources, usage |-> usage, code |-> code]

Signal(type, turn) == Ev(type, turn, << >>, << >>, << >>, 0, 0)

\* JSON.stringify of the history: the messages by value
Snapshot(h, m) == [i \in 1..Len(h) |-> m[h[i]]]

\* the part of the state the stream callbacks work on
Session ==
    [history |-> history, msgs |-> msgs, stored |-> stored,
     savedChats |-> savedChats, storageFull |-> storageFull,
     currentChatId |-> currentChatId, events |-> events, bus |-> bus]

\* setItem(key, value): the value is written unless localStorage throws,
\* which setItem catches and logs
SetItem(S, key, value) ==
    IF S.storageFull THEN S ELSE [S EXCEPT ![key] = value]

\* saveCurrentChat(history)
SaveCurrentChat(S) == SetItem(S, "stored", Snapshot(S.history, S.msgs))

\* a subscription: events.get(event).add(callback).  The callback throws
\* or not; a subscription made by once is the wrapper that calls the
\* callback and then unsubscribes itself
Subscriber(id, event, throws, once) ==
    [id |-> id, event |-> event, throws |-> throws, once |-> once]

\* off(event, callback): events.get(event).delete(callback)
Off(b, id) == [b EXCEPT !.subs = SelectSeq(@, LAMBDA s : s.id # id)]

\* on(event, callback): the Set keeps one entry per callback, in the order
\* of insertion
On(b, s) ==
    IF \E i \in 1..Len(b.subs) : b.subs[i].id = s.id THEN b
    ELSE [b EXCEPT !.subs = Append(@, s)]

InvokeUncaught(b, s, n) ==
    LET called == [b EXCEPT !.calls = Append(@, [event |-> n, sub |-> s.id])]
    IN IF s.throws THEN [called EXCEPT !.escaped = TRUE]
       ELSE IF s.once THEN Off(called, s.id)
       ELSE called

\* the body of the forEach of emit for one callback:
\* try { callback(data) } catch (error) { console.error(...) }
\* the wrapper of once unsubscribes after its callback returned
Invoke(b, s, n) ==
    LET called == [b EXCEPT !.calls = Append(@, [event |-> n, sub |-> s.id])]
    IN IF s.throws THEN called
       ELSE IF s.once THEN Off(called, s.id)
       ELSE called

\* this.events.get(event).forEach(...) over the callbacks registered for
\* the event when emit is called; an exception that leaves the body ends it
RECURSIVE ForEach(_, _, _)
ForEach(b, callbacks, n) ==
    IF callbacks = << >> \/ b.escaped THEN b
    ELSE ForEach(Invoke(b, Head(callbacks), n), Tail(callbacks), n)

\* eventBus.emit(event, data), as the n-th call of emit
BusEmit(b, e, n) ==
    ForEach(b, SelectSeq(b.subs, LAMBDA s : s.event = e.type), n)

EmitEvent(S, e) ==
    [S EXCEPT !.events = Append(@, e),
              !.bus = BusEmit(@, e, Len(S.events) + 1)]

\* addMessage: the new message gets the next id
AddMessage(S, role, content, sources, images) ==
    LET id == Len(S.msgs) + 1
        S1 == [S EXCEPT
                 !.msgs = Append(@, Message(id, role, content, sources,
                                            images)),
                 !.history = Append(@, id)]
    IN EmitEvent(SaveCurrentChat(S1), Signal("chat:updated", 0))

\* history.findLast(m => m.role === 'assistant'), 0 when there is none
LastAssistant(S) ==
    LET idx == { i \in 1..Len(S.history) :
                   S.msgs[S.history[i]].role = "assistant" }
    IN IF idx = {} THEN 0
       ELSE S.history[CHOOSE i \in idx : \A j \in idx : j <= i]

\* updateLastAssistantMessage(content, sources); setSources is false for
\* the default sources = null
UpdateLastAssistantMessage(S, content, sources, setSources) ==
    LET last == LastAssistant(S) IN
    IF last = 0 THEN S
    ELSE SaveCurrentChat(
             [S EXCEPT !.msgs[last].content = content,
                       !.msgs[last].sources =
                           IF setSources THEN sources ELSE @])

\* saveChat(id, messages) of the storage service: the chat id
SaveChatId(S) ==
    IF S.currentChatId # 0 THEN S.currentChatId ELSE Len(S.savedChats) + 1

\* saveCurrentChatToStorage
SaveCurrentChatToStorage(S) ==
    LET chatId == SaveChatId(S)
        snap == Snapshot(S.history, S.msgs)
        chats == IF chatId <= Len(S.savedChats)
                 THEN [S.savedChats EXCEPT ![chatId] = snap]
                 ELSE Append(S.savedChats, snap)
    IN EmitEvent([SetItem(S, "savedChats", chats)
                     EXCEPT !.currentChatId = chatId],
                 Signal("chat:saved", 0))

\* history.filter(m => m.id !== id), m the message objects
RECURSIVE RemoveMessage(_, _, _)
RemoveMessage(h, m, id) ==
    IF h = << >> THEN << >>
    ELSE IF m[Head(h)].id = id THEN RemoveMessage(Tail(h), m, id)
    ELSE <<Head(h)>> \o RemoveMessage(Tail(h), m, id)

\* the callbacks sendUserMessage hands to sendMessageStream, for turn t
\* whose placeholder message is msgs[asst]
OnChunk(S, t, asst, c) ==
    EmitEvent(UpdateLastAssistantMessage(S, c.content, << >>, FALSE),
              Ev("ai:streaming", t, c.delta, c.content, << >>, 0, 0))

OnCompleteUnsaved(S, t, asst, c) ==
    LET S1 == UpdateLastAssistantMessage(S, c.content, c.sources, TRUE)
        S2 == [S1 EXCEPT !.msgs[asst].sources = c.sources]
    IN EmitEvent(S2, Ev("ai:complete", t, << >>, c.content,
                        c.sources, c.usage, 0))

OnComplete(S, t, asst, c) ==
    LET S1 == UpdateLastAssistantMessage(S, c.content, c.sources, TRUE)
        S2 == [S1 EXCEPT !.msgs[asst].sources = c.sources]
        S3 == EmitEvent(S2, Ev("ai:complete", t, << >>, c.content,
                               c.sources, c.usage, 0))
    IN SaveCurrentChatToStorage(S3)

OnErrorKept(S, t, asst, c) ==
    EmitEvent(S, Ev("ai:error", t, << >>, << >>, << >>, 0, c.code))

OnError(S, t, asst, c) ==
    EmitEvent(SaveCurrentChat(
                  [S EXCEPT !.history =
                                RemoveMessage(@, S.msgs, S.msgs[asst].id)]),
              Ev("ai:error", t, << >>, << >>, << >>, 0, c.code))

OnProcessing(S, t, asst, c) == EmitEvent(S, Signal("ai:processing", t))

OnAnnotations(S, t, asst, c) ==
    LET S1 == UpdateLastAssistantMessage(S, S.msgs[asst].content,
                                         c.sources, TRUE)
        S2 == [S1 EXCEPT !.msgs[asst].sources = c.sources]
    IN EmitEvent(S2, Ev("ai:sources:updated", t, << >>, << >>,
                        c.sources, 0, 0))

ApplyCallback(S, t, asst, c) ==
    CASE c.cb = "onChunk" -> OnChunk(S, t, asst, c)
      [] c.cb = "onComplete" -> OnComplete(S, t, asst, c)
      [] c.cb = "onError" -> OnError(S, t, asst, c)
      [] c.cb = "onProcessing" -> OnProcessing(S, t, asst, c)
      [] c.cb = "onAnnotations" -> OnAnnotations(S, t, asst, c)

\* the callbacks of one step of fetchStream, in the order it issued them
RECURSIVE ApplyCallbacks(_, _, _, _)
ApplyCallbacks(S, t, asst, cbs) ==
    IF cbs = << >> THEN S
    ELSE ApplyCallbacks(ApplyCallback(S, t, asst, Head(cbs)), t, asst,
                        Tail(cbs))

\* msg.images && msg.images.length > 0
HasImages(msg) == "images" \in DOMAIN msg /\ msg.images # << >>

\* msg.pdfs && msg.pdfs.length > 0: addMessage gives a message no pdfs
\* member
HasPDFs(msg) == "pdfs" \in DOMAIN msg /\ msg.pdfs # << >>

Part(type, value) == [type |-> type, value |-> value]

\* the content of a message in the request: its text, or for a message with
\* attachments the array of its parts, the text first when it is not blank,
\* then the images, then the documents
RequestContent(msg) ==
    IF HasImages(msg) \/ HasPDFs(msg)
    THEN [text |-> << >>,
          parts |->
              (IF Trim(msg.content) # << >>
               THEN << Part("text", msg.content) >> ELSE << >>)
              \o (IF HasImages(msg)
                  THEN [i \in 1..Len(msg.images) |->
                           Part("image_url", msg.images[i])]
                  ELSE << >>)
              \o (IF HasPDFs(msg)
                  THEN [i \in 1..Len(msg.pdfs) |->
                           Part("file", msg.pdfs[i])]
                  ELSE << >>)]
    ELSE [text |-> msg.content, parts |-> << >>]

\* formatMessages(history, systemPrompt)
FormatMessages(S, systemPrompt) ==
    (IF systemPrompt # << >>
     THEN << [role |-> "system",
              content |-> [text |-> systemPrompt, parts |-> << >>]] >>
     ELSE << >>)
    \o [i \in 1..Len(S.history) |->
          [role |-> S.msgs[S.history[i]].role,
           content |-> RequestContent(S.msgs[S.history[i]])]]

(* ------------------------- the response bodies ------------------------ *)

ContentA == <<"DATA", "{", "c:a", "}">>
ContentB == <<"DATA", "{", "c:b", "}", "CR">>
CiteA == <<"DATA", "{", "ann:u1:A", "ann:u2:", "}">>
CiteB == <<"DATA", "{", "ann:file", "ann:u1:B", "}">>
Usage1 == <<"DATA", "{", "c:", "fin:stop", "use:1", "}">>
Usage2 == <<"DATA", "{", "use:2", "}">>
Done == <<"DATA", "[DONE]">>
DoneCR == <<"SP", "DATA", "done", "CR">>
VendorError == <<"DATA", "{", "err:429", "c:a", "}">>
VendorErrorNoCode == <<"DATA", "{", "err:", "}">>
FinishError == <<"DATA", "{", "c:b", "fin:error", "}">>
FinishLength == <<"DATA", "{", "c:b", "fin:length", "}">>
Truncated == <<"DATA", "{", "c:a">>
Processing == <<":", "PROC">>
Comment == <<":", "ping">>
Blank == <<"CR">>
EventField == <<"event:", "x">>

\* the lines a response body of the single-turn specifications is made of
TurnLines ==
    {ContentA, ContentB, CiteA, CiteB, Usage1, Usage2, Done, DoneCR,
     VendorError, VendorErrorNoCode, FinishError, FinishLength, Truncated,
     Processing, Comment, Blank, EventField}

\* the lines a response body of the session specification is made of
SessionLines == {ContentA}

\* the text of a body: every line but the last ends in a newline, the last
\* one too when the body is terminated
RECURSIVE Text(_, _)
Text(lines, terminated) ==
    IF lines = << >> THEN << >>
    ELSE IF Len(lines) = 1
         THEN Head(lines) \o (IF terminated THEN <<"NL">> ELSE << >>)
         ELSE Head(lines) \o <<"NL">> \o Text(Tail(lines), terminated)

(* ------------------------------ the turns ----------------------------- *)

\* an accepted call of sendUserMessage: where it is suspended (pc), the
\* abort signal of its controller, its messages, the request it sent, the
\* part of the response body that has not been read yet (wire), the
\* variables of fetchStream (d), the callbacks fetchStream has issued
\* (calls), whether a read ended inside a line (cut), and how the call ended
NewTurn(stream, user, asst, request) ==
    [pc |-> IF stream THEN "fetch" ELSE "json",
     stream |-> stream, aborted |-> FALSE, user |-> user, asst |-> asst,
     request |-> request, status |-> 0, lines |-> << >>,
     terminated |-> TRUE, wire |-> << >>, d |-> NewDecoder,
     calls |-> << >>, cut |-> FALSE, ended |-> "", outcome |-> "",
     settled |-> "pending"]

Turns == 1..Len(turns)

Result(op, result) == [op |-> op, result |-> result]

IsBusyUnchecked == FALSE

\* if (isLoading) throw
IsBusy == isLoading

IsEmptyMessageUntrimmed(content, images) ==
    content = << >> /\ images = << >>

\* if (!content.trim() && images.length === 0) throw
IsEmptyMessage(content, images) == Trim(content) = << >> /\ images = << >>

SetSession(S) ==
    /\ history' = S.history
    /\ msgs' = S.msgs
    /\ stored' = S.stored
    /\ savedChats' = S.savedChats
    /\ storageFull' = S.storageFull
    /\ currentChatId' = S.currentChatId
    /\ events' = S.events
    /\ bus' = S.bus

\* the options of sendUserMessage: chat.js reads images and stream
Options(images, pdfs, stream) ==
    [images |-> images, pdfs |-> pdfs, stream |-> stream]

NoOptions == Options(<< >>, << >>, TRUE)

\* options.stream !== false && config.chat.streamingEnabled
UseStreaming(options) == options.stream

\* sendUserMessage called by `op' in the session S: rejected while loading
SendRejectedBusy(S, op) ==
    /\ IsBusy
    /\ SetSession(S)
    /\ ret' = Result(op, "Already processing a message")
    /\ UNCHANGED <<isLoading, currentAbortController, turns>>

SendRejectedEmpty(S, op, content, images) ==
    /\ ~IsBusy
    /\ IsEmptyMessage(content, images)
    /\ SetSession(S)
    /\ ret' = Result(op, "Message cannot be empty")
    /\ UNCHANGED <<isLoading, currentAbortController, turns>>

SendAcceptedPlaceholderFirst(S, op, limit, content, images, stream) ==
    /\ ~IsBusy
    /\ ~IsEmptyMessage(content, images)
    /\ Len(turns) < limit
    /\ LET t == Len(turns) + 1
           S0 == EmitEvent(S, Signal("loading:start", t))
           S1 == AddMessage(S0, "user", content, << >>, images)
           user == Len(S1.msgs)
           S2 == EmitEvent(S1, Signal("message:send", t))
           S3 == IF stream
                 THEN AddMessage(S2, "assistant", << >>, << >>, << >>)
                 ELSE S2
           request == FormatMessages(S3, SystemPrompt)
           asst == IF stream THEN Len(S3.msgs) ELSE 0
       IN /\ SetSession(S3)
          /\ turns' = Append(turns, NewTurn(stream, user, asst, request))
          /\ currentAbortController' = t
    /\ isLoading' = TRUE
    /\ ret' = Result(op, "pending")

\* sendUserMessage up to its first await: the request is on its way
SendAccepted(S, op, limit, content, images, stream) ==
    /\ ~IsBusy
    /\ ~IsEmptyMessage(content, images)
    /\ Len(turns) < limit
    /\ LET t == Len(turns) + 1
           S0 == EmitEvent(S, Signal("loading:start", t))
           S1 == AddMessage(S0, "user", content, << >>, images)
           user == Len(S1.msgs)
           S2 == EmitEvent(S1, Signal("message:send", t))
           request == FormatMessages(S2, SystemPrompt)
           S3 == IF stream
                 THEN AddMessage(S2, "assistant", << >>, << >>, << >>)
                 ELSE S2
           asst == IF stream THEN Len(S3.msgs) ELSE 0
       IN /\ SetSession(S3)
          /\ turns' = Append(turns, NewTurn(stream, user, asst, request))
          /\ currentAbortController' = t
    /\ isLoading' = TRUE
    /\ ret' = Result(op, "pending")

\* sendUserMessage(content, options) called by `op' in the session S
SendOn(S, op, limit, content, options) ==
    \/ SendRejectedBusy(S, op)
    \/ SendRejectedEmpty(S, op, content, options.images)
    \/ SendAccepted(S, op, limit, content, options.images,
                    UseStreaming(options))

SendUserMessage(limit, content, options) ==
    SendOn(Session, "send", limit, content, options)

\* cancelCurrentRequest
CancelCurrentRequest ==
    \/ /\ currentAbortController # 0
       /\ turns' = [turns EXCEPT ![currentAbortController].aborted = TRUE]
       /\ currentAbortController' = 0
       /\ isLoading' = FALSE
       /\ LET S == EmitEvent(Session, Signal("loading:end", 0))
          IN events' = S.events /\ bus' = S.bus
       /\ ret' = Result("cancel", "true")
       /\ UNCHANGED <<history, msgs, stored, savedChats, storageFull,
                      currentChatId>>
    \/ /\ currentAbortController = 0
       /\ ret' = Result("cancel", "false")
       /\ UNCHANGED <<history, msgs, stored, savedChats, storageFull,
                      currentChatId, isLoading, currentAbortController,
                      turns, events, bus>>

\* how a streaming call ended, from the last callback of fetchStream and
\* from what ended the read loop
Outcome(d, ended) ==
    IF Last(d.cbs).cb = "onError" THEN "error"
    ELSE IF ended = "AbortError" THEN "cancelled" ELSE "complete"

\* a step of fetchStream of turn t that left the decoder in d and the unread
\* part of the body in wire: the callbacks run, and when fetchStream
\* returned, sendUserMessage resumes, returns the placeholder and runs its
\* finally block.  `ended' says what ended the read loop: "done" a
\* terminator line, "close" the end of the body, or the name of the
\* exception caught.
Step(t, d0, wire, ended) ==
    \E d \in {d0} :
    \E S \in {ApplyCallbacks(Session, t, turns[t].asst, d.cbs)} :
    \E turn \in {[turns[t] EXCEPT !.d = d, !.wire = wire,
                                 !.calls = @ \o d.cbs,
                                 !.cut = @ \/ (d.ctl = "run"
                                               /\ d.buffer # << >>)]} :
       IF d.ctl = "return"
       THEN /\ SetSession(EmitEvent(S, Signal("loading:end", t)))
            /\ turns' = [turns EXCEPT ![t] =
                            [turn EXCEPT !.pc = "done", !.wire = << >>,
                                         !.ended = ended,
                                         !.outcome = Outcome(d, ended),
                                         !.settled = "resolved"]]
            /\ isLoading' = FALSE
            /\ currentAbortController' = 0
            /\ UNCHANGED ret
       ELSE /\ SetSession(S)
            /\ turns' = [turns EXCEPT ![t] = turn]
            /\ UNCHANGED <<isLoading, currentAbortController, ret>>

\* the catch block of fetchStream entered from a suspended fetch or read
Rejected(t, name, status) ==
    Step(t, OnCatch([turns[t].d EXCEPT !.cbs = << >>], name, status),
         turns[t].wire, name)

\* the rejection of the pending fetch, read or json of an aborted request
\* is a promise reaction: it runs when the script that called abort() has
\* returned, before the event loop delivers any further network event
PendingAbort(t) ==
    turns[t].aborted /\ turns[t].pc \in {"fetch", "errbody", "read"}

MicrotasksDrained == \A t \in Turns : ~PendingAbort(t)

\* the reactions run in the order the controllers were aborted, which is
\* the order of the turns
NextReaction(t) ==
    PendingAbort(t) /\ \A u \in Turns : PendingAbort(u) => t <= u

\* fetch resolves with a 2xx response whose body will be the given lines
ResponseArrives(t, lines, terminated) ==
    /\ MicrotasksDrained
    /\ turns[t].pc = "fetch"
    /\ ~turns[t].aborted
    /\ turns' = [turns EXCEPT ![t].pc = "read", ![t].lines = lines,
                              ![t].terminated = terminated,
                              ![t].wire = Text(lines, terminated)]
    /\ UNCHANGED <<history, msgs, stored, savedChats, storageFull,
                   currentChatId, isLoading, currentAbortController,
                   events, bus, ret>>

\* fetch resolves with a response that is not ok: its body is read next
ResponseNotOk(t, status) ==
    /\ MicrotasksDrained
    /\ turns[t].pc = "fetch"
    /\ ~turns[t].aborted
    /\ turns' = [turns EXCEPT ![t].pc = "errbody", ![t].status = status]
    /\ UNCHANGED <<history, msgs, stored, savedChats, storageFull,
                   currentChatId, isLoading, currentAbortController,
                   events, bus, ret>>

\* response.json() of a response that is not ok settles (it rejects when
\* the request was aborted meanwhile): the APIError is thrown either way
ErrorBodyRead(t) ==
    /\ turns[t].pc = "errbody"
    /\ MicrotasksDrained \/ NextReaction(t)
    /\ Rejected(t, "HTTPError", turns[t].status)

\* fetch rejects with a network error
FetchFails(t) ==
    /\ MicrotasksDrained
    /\ turns[t].pc = "fetch"
    /\ ~turns[t].aborted
    /\ Rejected(t, "TypeError", 0)

\* reader.read() resolves with a chunk of n tokens
Read(t, n) ==
    /\ MicrotasksDrained
    /\ turns[t].pc = "read"
    /\ ~turns[t].aborted
    /\ n \in 1..Len(turns[t].wire)
    /\ \E r \in {OnRead(turns[t].d, SubSeq(turns[t].wire, 1, n))} :
       Step(t, Caught(r), SubSeq(turns[t].wire, n + 1, Len(turns[t].wire)),
            IF r.ctl = "throw" THEN "APIError" ELSE "done")

\* reader.read() resolves with done: the server closed the connection
ReadDone(t) ==
    /\ MicrotasksDrained
    /\ turns[t].pc = "read"
    /\ ~turns[t].aborted
    /\ turns[t].wire = << >>
    /\ \E r \in {OnDone(turns[t].d)} :
       Step(t, Caught(r), << >>,
            IF r.ctl = "throw" THEN "APIError" ELSE "close")

\* reader.read() rejects with a network error
ReadFails(t) ==
    /\ MicrotasksDrained
    /\ turns[t].pc = "read"
    /\ ~turns[t].aborted
    /\ Rejected(t, "TypeError", 0)

AbortedNever(t) == FALSE

\* the pending fetch or read of an aborted request rejects with AbortError
Aborted(t) ==
    /\ turns[t].pc \in {"fetch", "read"}
    /\ NextReaction(t)
    /\ Rejected(t, "AbortError", 0)

AiContentRaw(content) == content

\* the text of the answer of the non-streaming request:
\* response.choices?.[0]?.message?.content || 'No response received'
AiContent(content) ==
    IF content # << >> THEN content ELSE <<"No response received">>

\* the end of a non-streaming call of turn t in the session S: the finally
\* block of sendUserMessage
JsonEnds(t, S, outcome, settled) ==
    /\ SetSession(EmitEvent(S, Signal("loading:end", t)))
    /\ turns' = [turns EXCEPT ![t].pc = "done", ![t].ended = "json",
                              ![t].outcome = outcome,
                              ![t].settled = settled,
                              ![t].asst = IF outcome = "complete"
                                          THEN Len(S.msgs) ELSE 0]
    /\ isLoading' = FALSE
    /\ currentAbortController' = 0
    /\ UNCHANGED ret

\* sendMessage resolves with the parsed body of a 2xx response: the
\* assistant message is added and the chat is saved
JsonArrives(t, content) ==
    /\ MicrotasksDrained
    /\ turns[t].pc = "json"
    /\ LET S1 == AddMessage(Session, "assistant", AiContent(content),
                            << >>, << >>)
           S2 == EmitEvent(S1, Ev("ai:complete", t, << >>,
                                  AiContent(content), << >>, 0, 0))
           S3 == EmitEvent(S2, Signal("message:received", t))
       IN JsonEnds(t, SaveCurrentChatToStorage(S3), "complete", "resolved")

JsonFailsSilent(t, status) ==
    /\ MicrotasksDrained
    /\ turns[t].pc = "json"
    /\ JsonEnds(t, Session, "error", "rejected")

\* sendMessage rejects with the APIError of baseFetch: the status of a
\* response that is not ok, 0 for a network failure.  The catch block of
\* sendUserMessage emits the error and rethrows
JsonFails(t, status) ==
    /\ MicrotasksDrained
    /\ turns[t].pc = "json"
    /\ JsonEnds(t, EmitEvent(Session, Ev("ai:error", t, << >>, << >>, << >>,
                                         0, status)),
                "error", "rejected")

\* the positions in history of the messages of a role
Positions(S, role) ==
    { i \in 1..Len(S.history) : S.msgs[S.history[i]].role = role }

Max(set) == CHOOSE i \in set : \A j \in set : j <= i

TruncateAfter(S, index) ==
    EmitEvent(SaveCurrentChat(
                  [S EXCEPT !.history = SubSeq(@, 1, index)]),
              Signal("chat:updated", 0))

\* history = history.slice(0, index); saveCurrentChat; emit CHAT_UPDATED
Truncate(S, index) ==
    EmitEvent(SaveCurrentChat(
                  [S EXCEPT !.history = SubSeq(@, 1, index - 1)]),
              Signal("chat:updated", 0))

Fails(op, message) ==
    /\ ret' = Result(op, message)
    /\ UNCHANGED <<history, msgs, stored, savedChats, storageFull,
                   currentChatId, isLoading, currentAbortController,
                   turns, events, bus>>

\* the calls of regenerateLastResponse and editAndResend that changed
\* history: the CHAT_UPDATED events that addMessage did not emit
Truncations ==
    Cardinality({ i \in 1..Len(events) : events[i].type = "chat:updated" })
        - Len(msgs)

\* regenerateLastResponse
RegenerateLastResponse(limit, cuts) ==
    LET assistants == Positions(Session, "assistant") IN
    \/ /\ assistants = {}
       /\ Fails("regenerate", "No assistant message to regenerate")
    \/ /\ assistants # {}
       /\ LET lastAssistantIndex == Max(assistants)
              users == { i \in Positions(Session, "user") :
                           i < lastAssistantIndex }
          IN \/ /\ users = {}
                /\ Fails("regenerate", "No user message found")
             \/ /\ users # {}
                /\ Truncations < cuts
                /\ SendOn(Truncate(Session, lastAssistantIndex),
                          "regenerate", limit,
                          msgs[history[Max(users)]].content, NoOptions)

\* editAndResend(messageId, newContent)
EditAndResend(limit, cuts, messageId, newContent) ==
    LET found == { i \in 1..Len(history) : history[i] = messageId } IN
    \/ /\ found = {}
       /\ Fails("edit", "Message not found")
    \/ /\ found # {}
       /\ Truncations < cuts
       /\ SendOn(Truncate(Session, Max(found)), "edit", limit, newContent,
                 NoOptions)

(* --------------------------- specifications --------------------------- *)

Init ==
    /\ history = << >>
    /\ msgs = << >>
    /\ stored = << >>
    /\ savedChats = << >>
    /\ storageFull = FALSE
    /\ currentChatId = 0
    /\ isLoading = FALSE
    /\ currentAbortController = 0
    /\ turns = << >>
    /\ events = << >>
    /\ bus = [subs |-> << >>, calls |-> << >>, escaped |-> FALSE]
    /\ ret = Result("", "")

UserTexts == {<<"q">>, <<"SP">>}

Statuses == {500}

\* the response bodies of up to n lines, with and without a final newline
Bodies(lineSet, n, ends) ==
    { [lines |-> l, terminated |-> e] : l \in SeqsUpTo(lineSet, n), e \in ends }

\* the network events of turn t: the bodies the server may answer with and
\* the sizes of the chunks the body of t may arrive in
Transport(t, bodies, sizes) ==
    \/ FetchFails(t)
    \/ \E status \in Statuses : ResponseNotOk(t, status)
    \/ ErrorBodyRead(t)
    \/ /\ turns[t].pc = "fetch"
       /\ \E b \in bodies : ResponseArrives(t, b.lines, b.terminated)
    \/ Aborted(t)
    \/ ReadFails(t)
    \/ ReadDone(t)
    \/ \E n \in sizes : Read(t, n)

SessionBodies == Bodies(SessionLines, MaxSessionLines, {TRUE})

TurnBodies == Bodies(TurnLines, MaxLines, BOOLEAN)

\* the session: calls of the service at any time, several turns, each body
\* arriving in one chunk
Next ==
    \/ \E content \in UserTexts :
          SendUserMessage(MaxTurns, content, NoOptions)
    \/ CancelCurrentRequest
    \/ \E t \in Turns :
          Transport(t, SessionBodies, {Len(turns[t].wire)})

Spec == Init /\ [][Next]_vars

\* one turn: every response body of up to MaxLines lines, cut into chunks
\* in every way
NextTurn ==
    \/ SendAccepted(Session, "send", 1, <<"q">>, << >>, TRUE)
    \/ CancelCurrentRequest
    \/ \E t \in Turns :
          Transport(t, TurnBodies, 1..Len(turns[t].wire))

SpecTurn == Init /\ [][NextTurn]_vars

\* the bound of the service specification: the calls it accepts
MaxServiceTurns == 2

\* the calls of sendUserMessage of the service specification: with and
\* without text, an image, a document, and without streaming
ServiceCalls ==
    { [content |-> <<"q">>, options |-> NoOptions],
      [content |-> << >>, options |-> NoOptions],
      [content |-> <<"SP">>, options |-> NoOptions],
      [content |-> <<"SP">>, options |-> Options(<<"img">>, << >>, TRUE)],
      [content |-> <<"SP">>, options |-> Options(<< >>, <<"doc">>, TRUE)],
      [content |-> <<"q">>, options |-> Options(<< >>, << >>, FALSE)] }

\* the bodies a streaming request of the service is answered with: one
\* content line, or a content line and then an error of the vendor
ServiceBodies ==
    { [lines |-> <<ContentA>>, terminated |-> TRUE],
      [lines |-> <<ContentA, VendorError>>, terminated |-> TRUE] }

\* the answers of the non-streaming request
Answers == { <<"a">>, << >> }

\* the service: sendUserMessage with and without attachments, streaming or
\* not, and cancelCurrentRequest, at any time
NextService ==
    \/ \E call \in ServiceCalls :
          SendUserMessage(MaxServiceTurns, call.content, call.options)
    \/ CancelCurrentRequest
    \/ \E t \in Turns :
          Transport(t, ServiceBodies, {Len(turns[t].wire)})
    \/ \E t \in Turns :
          \/ \E content \in Answers : JsonArrives(t, content)
          \/ \E status \in {0} \cup Statuses : JsonFails(t, status)

SpecService == Init /\ [][NextService]_vars

\* the bounds of the editing specification: the calls it accepts, and the
\* calls of regenerateLastResponse and editAndResend that change history
MaxEditTurns == 2

MaxTruncations == 1

\* the bodies a request of the editing specification is answered with
EditBodies == { [lines |-> <<ContentA>>, terminated |-> TRUE] }

\* editing: regenerateLastResponse and editAndResend at any time of a
\* session of streaming turns
NextEdit ==
    \/ \E content \in UserTexts :
          SendUserMessage(MaxEditTurns, content, NoOptions)
    \/ CancelCurrentRequest
    \/ RegenerateLastResponse(MaxEditTurns, MaxTruncations)
    \/ \E messageId \in 1..(Len(msgs) + 1), newContent \in UserTexts :
          EditAndResend(MaxEditTurns, MaxTruncations, messageId,
                        newContent)
    \/ \E t \in Turns :
          Transport(t, EditBodies, {Len(turns[t].wire)})

SpecEdit == Init /\ [][NextEdit]_vars

\* the bound of the storage specification: the calls it accepts
MaxStorageTurns == 2

\* localStorage starts or stops to refuse writes: the quota is reached,
\* or room was made
StorageChanges ==
    /\ storageFull' = ~storageFull
    /\ UNCHANGED <<history, msgs, stored, savedChats, currentChatId,
                   isLoading, currentAbortController, turns, events, bus,
                   ret>>

\* the session with a storage that may refuse any write: streaming and
\* non-streaming sends and cancelCurrentRequest at any time
NextStorage ==
    \/ \E stream \in BOOLEAN :
          SendUserMessage(MaxStorageTurns, <<"q">>,
                          Options(<< >>, << >>, stream))
    \/ CancelCurrentRequest
    \/ StorageChanges
    \/ \E t \in Turns :
          Transport(t, EditBodies, {Len(turns[t].wire)})
    \/ \E t \in Turns :
          \/ \E content \in Answers : JsonArrives(t, content)
          \/ \E status \in {0} \cup Statuses : JsonFails(t, status)

SpecStorage == Init /\ [][NextStorage]_vars

\* the bound of the fair specification: the calls it accepts
MaxLiveTurns == 2

\* what the network and the event loop do for turn t: the response, the
\* read of its body, the close, a failure, the rejection of an aborted
\* request, or the answer of a request without streaming
Network(t) ==
    \/ \E status \in {0} \cup Statuses : JsonFails(t, status)
    \/ \E content \in Answers : JsonArrives(t, content)
    \/ Transport(t, EditBodies, {Len(turns[t].wire)})

NextLive ==
    \/ \E stream \in BOOLEAN :
          SendUserMessage(MaxLiveTurns, <<"q">>,
                          Options(<< >>, << >>, stream))
    \/ CancelCurrentRequest
    \/ \E t \in Turns : Network(t)

\* every pending fetch, read and response settles: the promise a turn
\* awaits is eventually resolved or rejected
SpecLive ==
    /\ Init
    /\ [][NextLive]_vars
    /\ \A t \in 1..MaxLiveTurns : WF_vars(t \in Turns /\ Network(t))

\* the bound of the specification of the send/stop button: the calls it
\* accepts
MaxStopTurns == 2

\* sendStopBtn.dataset.mode: handleLoadingStart sets 'stop' and
\* handleLoadingEnd sets 'send', so the mode is that of the last
\* loading notification
RECURSIVE ModeAfter(_)
ModeAfter(evts) ==
    IF evts = << >> THEN "send"
    ELSE IF Last(evts).type = "loading:start" THEN "stop"
    ELSE IF Last(evts).type = "loading:end" THEN "send"
    ELSE ModeAfter(Front(evts))

Mode == ModeAfter(events)

\* a click on the send/stop button.  In stop mode the handler calls
\* cancelCurrentRequest and, when it returns true, emits AI_CANCELLED
\* without a payload; in send mode it submits the text of the input,
\* unless a request is loading
HandleSendStopClick ==
    IF Mode = "stop"
    THEN IF currentAbortController # 0
         THEN /\ turns' = [turns EXCEPT
                             ![currentAbortController].aborted = TRUE]
              /\ currentAbortController' = 0
              /\ isLoading' = FALSE
              /\ LET S == EmitEvent(
                              EmitEvent(Session, Signal("loading:end", 0)),
                              Signal("ai:cancelled", currentAbortController))
                 IN events' = S.events /\ bus' = S.bus
              /\ ret' = Result("cancel", "true")
              /\ UNCHANGED <<history, msgs, stored, savedChats,
                             storageFull, currentChatId>>
         ELSE /\ ret' = Result("cancel", "false")
              /\ UNCHANGED <<history, msgs, stored, savedChats,
                             storageFull, currentChatId, isLoading,
                             currentAbortController, turns, events, bus>>
    ELSE IF isLoading THEN UNCHANGED vars
    ELSE SendUserMessage(MaxStopTurns, <<"q">>, NoOptions)

NextStop ==
    \/ HandleSendStopClick
    \/ \E t \in Turns :
          Transport(t, EditBodies, 1..Len(turns[t].wire))

SpecStop == Init /\ [][NextStop]_vars

\* the bounds of the specification of the sidebar: the calls of
\* sendUserMessage it accepts and the calls of clearHistory and
\* loadChatHistory
MaxLoadTurns == 2
MaxLoads == 1

Loads ==
    Cardinality({ i \in 1..Len(events) :
                    events[i].type \in {"chat:cleared", "chat:loaded"} })

\* clearHistory(), called by handleNewChat: clearCurrentChat removes the
\* working copy
ClearHistory ==
    /\ SetSession(EmitEvent([Session EXCEPT !.history = << >>,
                                            !.currentChatId = 0,
                                            !.stored = << >>],
                            Signal("chat:cleared", 0)))
    /\ UNCHANGED <<isLoading, currentAbortController, turns, ret>>

\* loadChatHistory(chatId, chat.messages), called by handleChatSelect with
\* the chat that loadChat parsed from storage: the messages are new
\* objects with the ids of the saved ones
LoadChatHistory(chatId) ==
    /\ chatId \in 1..Len(savedChats)
    /\ LET messages == savedChats[chatId]
           S1 == [Session EXCEPT
                    !.msgs = @ \o messages,
                    !.history = [i \in 1..Len(messages) |-> Len(msgs) + i],
                    !.currentChatId = chatId]
       IN SetSession(EmitEvent(SaveCurrentChat(S1),
                               Signal("chat:loaded", 0)))
    /\ UNCHANGED <<isLoading, currentAbortController, turns, ret>>

NextLoad ==
    \/ SendUserMessage(MaxLoadTurns, <<"q">>, NoOptions)
    \/ Loads < MaxLoads /\ ClearHistory
    \/ \E chatId \in 1..Len(savedChats) :
          Loads < MaxLoads /\ LoadChatHistory(chatId)
    \/ \E t \in Turns :
          Transport(t, EditBodies, {Len(turns[t].wire)})

SpecLoad == Init /\ [][NextLoad]_vars

\* the bounds of the specification of the event bus: the calls it
\* accepts and the callbacks that subscribe
MaxBusTurns == 1
MaxSubscribers == 2

\* the callbacks that may subscribe: a listener of the streaming
\* notification that throws, one registered with once, a listener of the
\* complete notification registered with once that throws, and further
\* listeners that return
BusCallbacks ==
    <<Subscriber(1, "ai:streaming", TRUE, FALSE),
      Subscriber(2, "ai:streaming", FALSE, TRUE),
      Subscriber(3, "ai:complete", TRUE, TRUE),
      Subscriber(4, "ai:streaming", FALSE, FALSE),
      Subscriber(5, "ai:complete", FALSE, FALSE)>>

Registered(b) == { b.subs[i].id : i \in 1..Len(b.subs) }

\* eventBus.on(event, callback) or eventBus.once(event, callback)
Subscribe(id) ==
    /\ id \notin Registered(bus)
    /\ bus' = On(bus, BusCallbacks[id])
    /\ UNCHANGED <<history, msgs, stored, savedChats, storageFull,
                   currentChatId, isLoading, currentAbortController,
                   turns, events, ret>>

\* eventBus.off(event, callback), or the function that on returned
Unsubscribe(id) ==
    /\ id \in Registered(bus)
    /\ bus' = Off(bus, id)
    /\ UNCHANGED <<history, msgs, stored, savedChats, storageFull,
                   currentChatId, isLoading, currentAbortController,
                   turns, events, ret>>

\* the body the streaming request of this specification is answered with:
\* two content lines
BusBodies == { [lines |-> <<ContentA, ContentB>>, terminated |-> TRUE] }

NextBus ==
    \/ \E id \in 1..MaxSubscribers : Subscribe(id)
    \/ \E id \in 1..MaxSubscribers : Unsubscribe(id)
    \/ SendUserMessage(MaxBusTurns, <<"q">>, NoOptions)
    \/ CancelCurrentRequest
    \/ \E t \in Turns :
          Transport(t, BusBodies, {Len(turns[t].wire)})

SpecBus == Init /\ [][NextBus]_vars

(* ------------------------- reading the claims ------------------------- *)

\* the chunks of a body delivered one line per chunk
RECURSIVE LineChunks(_, _)
LineChunks(lines, terminated) ==
    IF lines = << >> THEN << >>
    ELSE IF Len(lines) = 1
         THEN << Head(lines) \o (IF terminated THEN <<"NL">> ELSE << >>) >>
         ELSE << Head(lines) \o <<"NL">> >>
              \o LineChunks(Tail(lines), terminated)

\* the callbacks of fetchStream when it reads the given chunks and then the
\* end of the body
RECURSIVE RunChunks(_, _, _)
RunChunks(d, chunks, calls) ==
    IF d.ctl = "return" THEN calls
    ELSE IF chunks = << >>
         THEN calls \o Caught(OnDone(d)).cbs
         ELSE LET r == Caught(OnRead(d, Head(chunks))) IN
              RunChunks(r, Tail(chunks), calls \o r.cbs)

LinePerChunk(lines, terminated) ==
    RunChunks(NewDecoder, LineChunks(lines, terminated), << >>)

\* the turns whose read loop ran to its end on the body alone: no abort, no
\* network failure
ReadThrough(t) ==
    turns[t].pc = "done" /\ turns[t].ended \in {"done", "close", "APIError"}

\* the content deltas of a sequence of callbacks, concatenated
RECURSIVE DeltasOf(_)
DeltasOf(calls) ==
    IF calls = << >> THEN << >>
    ELSE (IF Head(calls).cb = "onChunk" THEN Head(calls).delta ELSE << >>)
         \o DeltasOf(Tail(calls))

CallsNamed(calls, name) == { i \in 1..Len(calls) : calls[i].cb = name }

\* C1: chunking is transparent.  However the text of a body is cut into
\* chunks, fetchStream issues the callbacks, with the arguments, that it
\* issues when the same lines arrive one line per chunk: all of them once
\* the body is read through, and a prefix of them while it is being read.
ChunkingTransparent ==
    \A t \in Turns :
        /\ turns[t].pc = "read" =>
              IsPrefix(turns[t].calls,
                       LinePerChunk(turns[t].lines, turns[t].terminated))
        /\ ReadThrough(t) =>
              turns[t].calls =
                  LinePerChunk(turns[t].lines, turns[t].terminated)

\* a body of two content lines was read through in chunks that ended inside
\* a line, and both deltas were delivered
ChunkingTransparentWitness ==
    \E t \in Turns :
        /\ ReadThrough(t)
        /\ turns[t].cut
        /\ turns[t].lines = <<ContentA, ContentB>>
        /\ DeltasOf(turns[t].calls) = <<"a", "b">>

\* a step that is a call of sendUserMessage: it sets the outcome of the
\* last call or starts a turn
SendCalled ==
    ret'.op = "send" /\ (ret' # ret \/ Len(turns') > Len(turns))

\* C2: a call of sendUserMessage made while isLoading is true fails with
\* 'Already processing a message' and changes neither history, the working
\* copy, isLoading, the cancellation handle nor the turns, and emits no
\* event: the call is rejected, not queued.
BusySendRejected ==
    [][(isLoading /\ SendCalled) =>
          /\ ret'.result = "Already processing a message"
          /\ UNCHANGED <<history, msgs, stored, savedChats, currentChatId,
                         isLoading, currentAbortController, turns,
                         events>>]_vars

\* a second call was rejected while the first turn had streamed a delta
BusySendRejectedWitness ==
    /\ ret = Result("send", "Already processing a message")
    /\ isLoading
    /\ Len(turns) = 1
    /\ turns[1].pc = "read"
    /\ Len(history) = 2
    /\ msgs[turns[1].asst].content = <<"a">>

InFlight(t) ==
    turns[t].pc \in {"fetch", "errbody", "read"} /\ ~turns[t].aborted

\* C3: at most one turn is in flight: at most one call of sendUserMessage
\* that has neither ended nor been cancelled, so at most one placeholder
\* message is being streamed.
AtMostOneInFlight ==
    Cardinality({ t \in Turns : InFlight(t) }) <= 1

EventsOf(t, type) ==
    { i \in 1..Len(events) : events[i].turn = t /\ events[i].type = type }

InHistory(id) == \E i \in 1..Len(history) : history[i] = id

\* C4: rollback on error, retention on cancel.  A streaming turn that ended
\* in an error has its placeholder removed from history and its user message
\* kept; a turn that was cancelled keeps its assistant message, whose
\* content is the concatenation of the deltas delivered to it before the
\* cancel.
RollbackOrRetention ==
    \A t \in Turns :
        /\ (turns[t].pc = "done" /\ turns[t].outcome = "error") =>
              /\ ~InHistory(turns[t].asst)
              /\ InHistory(turns[t].user)
        /\ (turns[t].pc = "done" /\ turns[t].ended = "AbortError") =>
              /\ InHistory(turns[t].asst)
              /\ InHistory(turns[t].user)
              /\ msgs[turns[t].asst].content = DeltasOf(turns[t].calls)

\* C5: monotonic content growth.  Each streaming notification of a turn
\* carries a non-empty delta, and its accumulated content is the accumulated
\* content of the turn's previous streaming notification (nothing for the
\* first) followed by that delta.
MonotonicGrowth ==
    \A t \in Turns :
        LET idx == EventsOf(t, "ai:streaming") IN
        \A i \in idx :
            LET before == { j \in idx : j < i }
                prev == IF before = {} THEN << >>
                        ELSE events[CHOOSE j \in before :
                                       \A k \in before : k <= j].content
            IN /\ events[i].delta # << >>
               /\ events[i].content = prev \o events[i].delta

\* two streaming notifications, the second extending the first
MonotonicGrowthWitness ==
    \E t \in Turns : \E i, j \in EventsOf(t, "ai:streaming") :
        /\ i < j
        /\ events[i].content = <<"a">>
        /\ events[j].content = <<"a", "b">>
        /\ events[j].delta = <<"b">>

\* the url_citation annotations of a line, when it is a data line with a
\* JSON payload
LineAnnotations(line) ==
    LET l == Trim(line) IN
    IF StartsWithData(l) /\ JSONParses(Tail(l))
    THEN SelectSeq(JSONParse(Tail(l)).annotations,
                   LAMBDA a : a.type = "url_citation" /\ a.hasCitation)
    ELSE << >>

RECURSIVE BodyAnnotations(_)
BodyAnnotations(lines) ==
    IF lines = << >> THEN << >>
    ELSE LineAnnotations(Head(lines)) \o BodyAnnotations(Tail(lines))

\* the first annotation of each url, in the order the urls were first seen
RECURSIVE FirstSeen(_, _)
FirstSeen(as, seen) ==
    IF as = << >> THEN << >>
    ELSE IF Head(as).url \in seen THEN FirstSeen(Tail(as), seen)
    ELSE <<Head(as)>> \o FirstSeen(Tail(as), seen \cup {Head(as).url})

\* the sources are one citation per annotation of `first', in that order,
\* each with the url of its annotation and with its title when it has one
CitesExactly(sources, first) ==
    /\ Len(sources) = Len(first)
    /\ \A i \in 1..Len(first) :
          /\ sources[i].url = first[i].url
          /\ first[i].title # "" => sources[i].title = first[i].title

IsDataLine(line) == StartsWithData(Trim(line))

Payload(line) == Tail(Trim(line))

IsDoneLine(line) == Trim(line) = <<"DATA", "[DONE]">>

\* a data line whose payload is a JSON text with an `error' member or with
\* the finish_reason 'error'
IsErrorLine(line) ==
    /\ IsDataLine(line)
    /\ Payload(line) \notin {<<"[DONE]">>, <<"done">>}
    /\ JSONParses(Payload(line))
    /\ (JSONParse(Payload(line)).hasError
        \/ JSONParse(Payload(line)).finish = "error")

\* a data line whose payload is a termination sentinel
IsSentinelLine(line) ==
    IsDataLine(line) /\ Payload(line) \in {<<"[DONE]">>, <<"done">>}

\* no line of the sequence ends the decode
NoneEnds(lines) ==
    \A j \in 1..Len(lines) :
        ~IsErrorLine(lines[j]) /\ ~IsSentinelLine(lines[j])

\* the usage member of the last line that has one, 0 when none has
RECURSIVE UsageOf(_)
UsageOf(lines) ==
    IF lines = << >> THEN 0
    ELSE IF /\ IsDataLine(Last(lines))
            /\ JSONParses(Payload(Last(lines)))
            /\ JSONParse(Payload(Last(lines))).usage # 0
         THEN JSONParse(Payload(Last(lines))).usage
         ELSE UsageOf(Front(lines))

\* the sources of the last onAnnotations callback, none when there is none
RECURSIVE SourcesOf(_)
SourcesOf(calls) ==
    IF calls = << >> THEN << >>
    ELSE IF Last(calls).cb = "onAnnotations" THEN Last(calls).sources
         ELSE SourcesOf(Front(calls))

\* C7: a `data: [DONE]' line ends the decode immediately.  When the decoder
\* reaches such a line, onComplete is called once, last, with the content,
\* usage and sources of the lines before it; the lines after it, in the same
\* chunk or in later ones, produce no callback: the callbacks are those of
\* the body that ends before the line, and the message holds the content of
\* the complete notification.
DoneEndsDecode ==
    \A t \in Turns : \A k \in 1..Len(turns[t].lines) :
        (/\ ReadThrough(t)
         /\ IsDoneLine(turns[t].lines[k])
         /\ NoneEnds(SubSeq(turns[t].lines, 1, k - 1))) =>
            LET before == SubSeq(turns[t].lines, 1, k - 1)
                calls == turns[t].calls
                last == Last(calls)
            IN /\ calls = LinePerChunk(before, TRUE)
               /\ CallsNamed(calls, "onComplete") = {Len(calls)}
               /\ CallsNamed(calls, "onError") = {}
               /\ last.content = DeltasOf(calls)
               /\ last.usage = UsageOf(before)
               /\ CitesExactly(last.sources,
                               FirstSeen(BodyAnnotations(before), {}))
               /\ msgs[turns[t].asst].content = last.content
               /\ msgs[turns[t].asst].sources = last.sources
               /\ Cardinality(EventsOf(t, "ai:complete")) = 1
               /\ Cardinality(EventsOf(t, "ai:streaming"))
                     = Cardinality(CallsNamed(calls, "onChunk"))

\* a body whose first line is `data: [DONE]' and whose second line carries
\* content: the only callback is onComplete with no content
DoneEndsDecodeWitness ==
    \E t \in Turns :
        /\ ReadThrough(t)
        /\ turns[t].lines = <<Done, ContentA>>
        /\ Len(turns[t].calls) = 1
        /\ turns[t].calls[1].cb = "onComplete"
        /\ turns[t].calls[1].content = << >>
        /\ EventsOf(t, "ai:streaming") = {}
        /\ msgs[turns[t].asst].content = << >>

\* the code of the error of an error line: the vendor's, 500 when it gave
\* none or when the line is a finish_reason 'error'
VendorCode(line) ==
    LET parsed == JSONParse(Payload(line)) IN
    IF parsed.hasError /\ parsed.code # 0 THEN parsed.code ELSE 500

\* C8: a mid-stream vendor error is fatal.  When the decoder reaches a data
\* line with an `error' member or with finish_reason 'error', the turn ends
\* with one error notification that carries the vendor's code, 500 when none
\* is given; no later line is processed and there is no complete
\* notification.
VendorErrorFatal ==
    \A t \in Turns : \A k \in 1..Len(turns[t].lines) :
        (/\ ReadThrough(t)
         /\ IsErrorLine(turns[t].lines[k])
         /\ NoneEnds(SubSeq(turns[t].lines, 1, k - 1))) =>
            LET calls == turns[t].calls IN
            /\ calls = LinePerChunk(SubSeq(turns[t].lines, 1, k), TRUE)
            /\ CallsNamed(calls, "onError") = {Len(calls)}
            /\ CallsNamed(calls, "onComplete") = {}
            /\ Last(calls).code = VendorCode(turns[t].lines[k])
            /\ EventsOf(t, "ai:complete") = {}
            /\ Cardinality(EventsOf(t, "ai:error")) = 1
            /\ \A i \in EventsOf(t, "ai:error") :
                  events[i].code = VendorCode(turns[t].lines[k])
            /\ turns[t].outcome = "error"

\* an error payload with code 429 followed by a content line: the only
\* callback is onError with 429
VendorErrorFatalWitness ==
    \E t \in Turns :
        /\ ReadThrough(t)
        /\ turns[t].lines = <<VendorError, ContentB>>
        /\ Len(turns[t].calls) = 1
        /\ turns[t].calls[1].cb = "onError"
        /\ turns[t].calls[1].code = 429
        /\ EventsOf(t, "ai:streaming") = {}
        /\ \E i \in EventsOf(t, "ai:error") : events[i].code = 429

\* a data line whose payload is neither a sentinel nor a JSON text
IsMalformedLine(line) ==
    /\ IsDataLine(line)
    /\ ~IsSentinelLine(line)
    /\ ~JSONParses(Payload(line))

WithoutMalformed(lines) ==
    SelectSeq(lines, LAMBDA line : ~IsMalformedLine(line))

\* C9: a data line whose payload fails JSON parsing is skipped silently.
\* The callbacks of a body that was read through, with their arguments, are
\* those of the body without its malformed lines, so a malformed line
\* produces no callback and no error, leaves content, sources and usage as
\* they were, and the valid lines after it are decoded as if it had not been
\* there.
MalformedSkipped ==
    \A t \in Turns :
        (ReadThrough(t)
         /\ \E k \in 1..Len(turns[t].lines) :
               IsMalformedLine(turns[t].lines[k])) =>
            LET lines == turns[t].lines
                terminated == turns[t].terminated
                                 \/ IsMalformedLine(Last(lines))
            IN turns[t].calls
                  = LinePerChunk(WithoutMalformed(lines), terminated)

\* a truncated JSON line followed by a valid content line: the content of
\* the valid line is delivered and completes the turn, nothing is reported
\* for the truncated one
MalformedSkippedWitness ==
    \E t \in Turns :
        /\ ReadThrough(t)
        /\ turns[t].lines = <<Truncated, ContentB>>
        /\ DeltasOf(turns[t].calls) = <<"b">>
        /\ Len(turns[t].calls) = 2
        /\ Last(turns[t].calls).cb = "onComplete"
        /\ Last(turns[t].calls).content = <<"b">>
        /\ EventsOf(t, "ai:error") = {}

\* a streaming turn whose controller was aborted while its fetch or a read
\* of the body of its response was pending
Cancelled(t) ==
    turns[t].stream /\ turns[t].aborted /\ turns[t].status = 0

\* C10: cancellation is never reported as an error.  A streaming turn that
\* is cancelled before the response arrives or between chunk reads emits no
\* error notification and its call of sendUserMessage does not reject; when
\* it has ended, its last callback is onComplete with the content and the
\* sources accumulated before the cancel, and the complete notification
\* carries them.
CancelNotAnError ==
    \A t \in Turns :
        Cancelled(t) =>
            /\ EventsOf(t, "ai:error") = {}
            /\ CallsNamed(turns[t].calls, "onError") = {}
            /\ turns[t].settled # "rejected"
            /\ turns[t].pc = "done" =>
                  LET calls == turns[t].calls
                      last == Last(calls)
                  IN /\ turns[t].settled = "resolved"
                     /\ CallsNamed(calls, "onComplete") = {Len(calls)}
                     /\ last.content = DeltasOf(calls)
                     /\ last.sources = SourcesOf(calls)
                     /\ Cardinality(EventsOf(t, "ai:complete")) = 1
                     /\ \A i \in EventsOf(t, "ai:complete") :
                           /\ events[i].content = last.content
                           /\ events[i].sources = last.sources

\* a turn cancelled between reads, after one delta and two citations: it
\* ended with a complete notification carrying them
CancelNotAnErrorWitness ==
    \E t \in Turns :
        /\ Cancelled(t)
        /\ turns[t].pc = "done"
        /\ turns[t].ended = "AbortError"
        /\ Last(turns[t].calls).cb = "onComplete"
        /\ Last(turns[t].calls).content = <<"a">>
        /\ Len(Last(turns[t].calls).sources) = 2
        /\ \E i \in EventsOf(t, "ai:complete") :
              events[i].content = <<"a">> /\ Len(events[i].sources) = 2

\* C11: every call of cancelCurrentRequest: called when no turn is in
\* flight, also when the turn was cancelled already and has not finished
\* unwinding, it returns false, changes nothing and emits no event; called
\* when a turn is in flight it signals the cancellation handle of that turn
\* and returns true.
CancelSignalsTurnInFlight ==
    [][CancelCurrentRequest =>
          IF \E t \in Turns : InFlight(t)
          THEN /\ ret'.result = "true"
               /\ \E t \in Turns : InFlight(t) /\ turns'[t].aborted
          ELSE /\ ret'.result = "false"
               /\ UNCHANGED <<history, msgs, stored, savedChats,
                              currentChatId, isLoading,
                              currentAbortController, turns, events>>]_vars

NoAttachments(options) == options.images = << >> /\ options.pdfs = << >>

\* a step that is a call of sendUserMessage with blank text and no
\* attachment
BlankSendCalled ==
    \E call \in ServiceCalls :
        /\ Trim(call.content) = << >>
        /\ NoAttachments(call.options)
        /\ SendUserMessage(MaxServiceTurns, call.content, call.options)

\* C12 as stated: every call of sendUserMessage with empty or
\* whitespace-only text and no attachment fails with 'Message cannot be
\* empty' and changes neither history, the working copy, isLoading nor the
\* cancellation handle, and emits no event.
EmptySendAlwaysEmptyMessage ==
    [][BlankSendCalled =>
          /\ ret'.result = "Message cannot be empty"
          /\ UNCHANGED <<history, msgs, stored, savedChats, currentChatId,
                         isLoading, currentAbortController, turns,
                         events>>]_vars

\* C12 as amended: such a call fails before any state change, with
\* 'Message cannot be empty' when isLoading is false and with 'Already
\* processing a message' when isLoading is true.
EmptySendRejected ==
    [][BlankSendCalled =>
          /\ ret'.result = IF isLoading
                           THEN "Already processing a message"
                           ELSE "Message cannot be empty"
          /\ UNCHANGED <<history, msgs, stored, savedChats, currentChatId,
                         isLoading, currentAbortController, turns,
                         events>>]_vars

\* a blank message was rejected as empty after a turn had completed, and
\* the conversation of that turn is as it was
EmptySendRejectedWitness ==
    /\ ret = Result("send", "Message cannot be empty")
    /\ ~isLoading
    /\ Len(turns) = 1
    /\ turns[1].outcome = "complete"
    /\ history = <<turns[1].user, turns[1].asst>>
    /\ stored = Snapshot(history, msgs)
    /\ EventsOf(1, "ai:error") = {}

\* the parts of the last message of the request a turn sent
LastRequestParts(turn) == Last(turn.request).content.parts

\* C13: a call of sendUserMessage with at least one attachment, an image or
\* a document, does not fail with 'Message cannot be empty' even when its
\* text is blank, and when it is accepted the attachments are stored on
\* the user message and are parts of the last message of the request.
AttachmentSendAccepted ==
    [][\A call \in ServiceCalls :
          (/\ ~NoAttachments(call.options)
           /\ SendUserMessage(MaxServiceTurns, call.content, call.options))
          => /\ ret'.result # "Message cannot be empty"
             /\ ret'.result = "pending" =>
                   LET turn == Last(turns')
                       message == msgs'[turn.user]
                   IN /\ message.images = call.options.images
                      /\ call.options.pdfs # << >> =>
                            /\ "pdfs" \in DOMAIN message
                            /\ message.pdfs = call.options.pdfs
                      /\ \A i \in 1..Len(call.options.images) :
                            \E j \in 1..Len(LastRequestParts(turn)) :
                               LastRequestParts(turn)[j]
                                  = Part("image_url",
                                         call.options.images[i])
                      /\ \A i \in 1..Len(call.options.pdfs) :
                            \E j \in 1..Len(LastRequestParts(turn)) :
                               LastRequestParts(turn)[j]
                                  = Part("file", call.options.pdfs[i])]_vars

\* the turns that ended in error
Failed(t) == turns[t].pc = "done" /\ turns[t].outcome = "error"

Count(evts, t, type) ==
    Cardinality({ i \in 1..Len(evts) :
                    evts[i].turn = t /\ evts[i].type = type })

Requesting(turn) == turn.pc \in {"fetch", "json"}

\* C15: a failed turn surfaces one error and is not retried.  Every
\* accepted call of sendUserMessage is one turn with one request: the
\* request of a turn does not change, a turn whose request was answered or
\* has failed never waits for a response to a request again, and there are
\* as many turns as calls accepted.  A turn has one error event when it
\* has ended in error, streaming or not, and none otherwise.
ErrorSurfacedOnce ==
    [][\A t \in 1..Len(turns') :
          /\ Count(events', t, "ai:error") =
                IF turns'[t].pc = "done" /\ turns'[t].outcome = "error"
                THEN 1 ELSE 0
          /\ Count(events', t, "message:send") = 1
          /\ IF t \in Turns
             THEN /\ turns'[t].request = turns[t].request
                  /\ Requesting(turns'[t]) => Requesting(turns[t])
             ELSE /\ t = Len(turns) + 1
                  /\ Requesting(turns'[t])]_vars

\* a turn without streaming and then a streaming turn have both failed,
\* each with its one error event and its one request
ErrorSurfacedOnceWitness ==
    /\ Len(turns) = 2
    /\ \A t \in Turns : Failed(t) /\ Count(events, t, "ai:error") = 1
    /\ turns[1].ended = "json"
    /\ turns[2].ended = "APIError"
    /\ Count(events, 2, "ai:streaming") = 1
    /\ Count(events, 0, "ai:error") = 0
    /\ ~isLoading

\* the messages a call of sendUserMessage is rejected with
SendRejections == {"Already processing a message", "Message cannot be empty"}

\* the position in history of the most recent assistant message
LastAssistantIndex == Max(Positions(Session, "assistant"))

\* the content of the most recent user message before that position
PrecedingUserContent ==
    msgs[history[Max({ i \in Positions(Session, "user") :
                         i < LastAssistantIndex })]].content

IndexOf(messageId) == CHOOSE i \in 1..Len(history) : history[i] = messageId

\* C17: editAndResend fails with 'Message not found' and changes nothing
\* when no message of history has the id.  Otherwise history is cut to
\* the messages before the target and sendUserMessage(newText) is called,
\* so that a new user message with the new text directly follows the
\* messages that were kept.
EditResendsAfterPrefix ==
    [][\A messageId \in 1..(Len(msgs) + 1), newContent \in UserTexts :
          EditAndResend(MaxEditTurns, MaxTruncations, messageId, newContent)
          => IF ~InHistory(messageId)
             THEN /\ ret' = Result("edit", "Message not found")
                  /\ UNCHANGED <<history, msgs, stored, savedChats,
                                 currentChatId, isLoading,
                                 currentAbortController, turns, events>>
             ELSE LET kept == SubSeq(history, 1, IndexOf(messageId) - 1) IN
                  /\ ret'.op = "edit"
                  /\ Len(history') > Len(kept)
                  /\ SubSeq(history', 1, Len(kept)) = kept
                  /\ history'[Len(kept) + 1] \notin DOMAIN msgs
                  /\ msgs'[history'[Len(kept) + 1]].role = "user"
                  /\ msgs'[history'[Len(kept) + 1]].content
                        = newContent]_vars

\* C18: a message changes only while its own turn streams.  Whenever the
\* content or the sources of a message change, the message is the
\* placeholder of a turn that has not ended and that turn took the step:
\* no message of a turn that has completed, failed or been cancelled
\* changes, and the stream events of a turn change no message of another
\* turn, whatever is called in between.
OnlyOwnPlaceholderMutated ==
    [][\A id \in DOMAIN msgs :
          msgs'[id] # msgs[id]
          => \E t \in Turns : /\ turns[t].asst = id
                              /\ turns[t].pc # "done"
                              /\ turns'[t] # turns[t]]_vars

\* a notification of a turn as the listeners see it: its type, the delta
\* of a streaming notification, the url of the citation a sources-updated
\* notification added
Note(type, delta, url) == [type |-> type, delta |-> delta, url |-> url]

NoteTypes == {"ai:streaming", "ai:sources:updated", "ai:processing"}

\* the streaming, sources-updated and processing notifications of turn t,
\* in the order they were emitted
NotesOf(t) ==
    LET sel == SelectSeq(events,
                         LAMBDA e : e.turn = t /\ e.type \in NoteTypes)
    IN [i \in 1..Len(sel) |->
           Note(sel[i].type, sel[i].delta,
                IF sel[i].sources = << >> THEN ""
                ELSE Last(sel[i].sources).url)]

\* the notifications a line stands for when the urls in `seen' have been
\* cited before it: one for a processing comment that ended in a newline,
\* one for the content delta of a payload and one for each new url it
\* cites, none for a payload with an `error' member
LineNotes(line, newline, seen) ==
    LET l == Trim(line) IN
    IF l # << >> /\ Head(l) = ":"
    THEN IF newline /\ \E i \in 1..Len(l) : l[i] = "PROC"
         THEN <<Note("ai:processing", << >>, "")>>
         ELSE << >>
    ELSE IF /\ IsDataLine(line)
            /\ ~IsSentinelLine(line)
            /\ JSONParses(Payload(line))
            /\ ~JSONParse(Payload(line)).hasError
    THEN LET content == JSONParse(Payload(line)).content
             first == FirstSeen(LineAnnotations(line), seen)
         IN (IF content # << >>
             THEN <<Note("ai:streaming", content, "")>> ELSE << >>)
            \o [i \in 1..Len(first) |->
                   Note("ai:sources:updated", << >>, first[i].url)]
    ELSE << >>

\* the notifications of a body, line after line up to the line that ends
\* the decode
RECURSIVE BodyNotes(_, _, _)
BodyNotes(lines, terminated, seen) ==
    IF lines = << >> THEN << >>
    ELSE LET line == Head(lines)
             newline == Len(lines) > 1 \/ terminated
             cited == { LineAnnotations(line)[i].url :
                          i \in 1..Len(LineAnnotations(line)) }
         IN LineNotes(line, newline, seen)
            \o (IF IsSentinelLine(line) \/ IsErrorLine(line) THEN << >>
                ELSE BodyNotes(Tail(lines), terminated, seen \cup cited))

\* C19: the stream is folded in line order.  The streaming, sources-updated
\* and processing notifications of a turn are, in this order, the
\* notifications of the lines of its body taken one line after the other:
\* a prefix of them at any time, all of them when the body was decoded to
\* its end.  Each delta is the delta of one line.
FoldedInLineOrder ==
    \A t \in Turns :
        LET expected == BodyNotes(turns[t].lines, turns[t].terminated, {})
        IN /\ IsPrefix(NotesOf(t), expected)
           /\ ReadThrough(t) => NotesOf(t) = expected

\* a body of a content line and a line citing two urls was decoded to its
\* end: one streaming and then two sources-updated notifications
FoldedInLineOrderWitness ==
    /\ Len(turns) = 1
    /\ ReadThrough(1)
    /\ turns[1].lines = <<ContentA, CiteA>>
    /\ turns[1].terminated
    /\ ~turns[1].cut
    /\ NotesOf(1) = <<Note("ai:streaming", <<"a">>, ""),
                      Note("ai:sources:updated", << >>, "u1"),
                      Note("ai:sources:updated", << >>, "u2")>>

\* the content delta of a line: that of the payload of a data line
LineContent(line) ==
    IF /\ IsDataLine(line)
       /\ ~IsSentinelLine(line)
       /\ JSONParses(Payload(line))
    THEN JSONParse(Payload(line)).content
    ELSE << >>

RECURSIVE BodyContent(_)
BodyContent(lines) ==
    IF lines = << >> THEN << >>
    ELSE LineContent(Head(lines)) \o BodyContent(Tail(lines))

\* the turns whose body ended, at the close of the transport, in a data
\* line with a content delta and without a newline
ClosedOnContent(t) ==
    /\ turns[t].pc = "done"
    /\ turns[t].ended = "close"
    /\ turns[t].lines # << >>
    /\ ~turns[t].terminated
    /\ LineContent(Last(turns[t].lines)) # << >>

\* C20: the line buffer is flushed when the transport closes.  When the
\* body ends in a data line with a content delta and no newline, the turn
\* completes with the content of all its lines, that of the last line
\* included: it is the last streaming notification, and the content of
\* the complete notification and of the message ends with it.
FlushedOnClose ==
    \A t \in Turns :
        ClosedOnContent(t) =>
            LET final == LineContent(Last(turns[t].lines))
                content == BodyContent(turns[t].lines)
            IN /\ Cardinality(EventsOf(t, "ai:complete")) = 1
               /\ \A i \in EventsOf(t, "ai:complete") :
                     events[i].content = content
               /\ msgs[turns[t].asst].content = content
               /\ content = BodyContent(Front(turns[t].lines)) \o final
               /\ NotesOf(t) # << >>
               /\ Last(NotesOf(t)) = Note("ai:streaming", final, "")

\* a body of two content lines, the second without its newline, was read
\* to the close of the transport: the turn completed with both deltas
FlushedOnCloseWitness ==
    /\ Len(turns) = 1
    /\ ClosedOnContent(1)
    /\ turns[1].lines = <<ContentA, ContentB>>
    /\ turns[1].outcome = "complete"
    /\ msgs[turns[1].asst].content = <<"a", "b">>
    /\ \E i \in EventsOf(1, "ai:complete") :
          events[i].content = <<"a", "b">>

\* a data line whose payload has a finish_reason other than 'error'
HasFinish(line) ==
    /\ IsDataLine(line)
    /\ ~IsSentinelLine(line)
    /\ JSONParses(Payload(line))
    /\ ~JSONParse(Payload(line)).hasError
    /\ JSONParse(Payload(line)).finish \notin {"", "error"}

\* the lines before the first termination sentinel, all when there is none
RECURSIVE Decoded(_)
Decoded(lines) ==
    IF lines = << >> \/ IsSentinelLine(Head(lines)) THEN << >>
    ELSE <<Head(lines)>> \o Decoded(Tail(lines))

\* C21: a finish_reason other than 'error' does not end the decode.  When
\* the body of a turn was read to its end, a line of it before any
\* sentinel has such a finish_reason and no line before the sentinel is
\* an error, the turn completes at the sentinel or at the close of the
\* transport, once, with the content, the citations and the usage of all
\* the lines before the sentinel, those after the finish_reason included.
FinishReasonInformational ==
    \A t \in Turns :
        LET decoded == Decoded(turns[t].lines) IN
        (/\ ReadThrough(t)
         /\ \E j \in 1..Len(decoded) : HasFinish(decoded[j])
         /\ \A j \in 1..Len(decoded) : ~IsErrorLine(decoded[j]))
        => /\ turns[t].ended \in {"done", "close"}
           /\ turns[t].outcome = "complete"
           /\ Cardinality(EventsOf(t, "ai:complete")) = 1
           /\ \A i \in EventsOf(t, "ai:complete") :
                 /\ events[i].content = BodyContent(decoded)
                 /\ events[i].usage = UsageOf(decoded)
                 /\ CitesExactly(events[i].sources,
                                 FirstSeen(BodyAnnotations(decoded), {}))
           /\ NotesOf(t) =
                 BodyNotes(decoded,
                           turns[t].terminated
                           \/ Len(decoded) < Len(turns[t].lines), {})

\* a line with content and the finish_reason 'length' was followed by a
\* content line: the turn completed at the close with both deltas
FinishReasonInformationalWitness ==
    /\ Len(turns) = 1
    /\ ReadThrough(1)
    /\ turns[1].lines = <<FinishLength, ContentA>>
    /\ turns[1].ended = "close"
    /\ \E i \in EventsOf(1, "ai:complete") :
          events[i].content = <<"b", "a">>
    /\ msgs[turns[1].asst].content = <<"b", "a">>

\* the turns of calls made without streaming
NonStreaming(turn) == turn.pc = "json" \/ turn.ended = "json"

\* C22: a turn without streaming.  The accepted call appends the user
\* message and nothing else and issues one request; the turn emits no
\* streaming, sources-updated or processing notification; when the
\* response arrives the turn appends one assistant message, which has a
\* content, and emits one complete notification; when the request fails
\* no message is appended or changed.
NonStreamingTurn ==
    [][\A t \in 1..Len(turns') :
          NonStreaming(turns'[t])
          => /\ \A type \in NoteTypes : Count(events', t, type) = 0
             /\ t \notin Turns =>
                   /\ turns'[t].pc = "json"
                   /\ Len(msgs') = Len(msgs) + 1
                   /\ Last(msgs').role = "user"
                   /\ history' = Append(history, Len(msgs'))
             /\ (t \in Turns /\ turns'[t].pc = "json") =>
                   /\ turns[t].pc = "json"
                   /\ turns'[t].request = turns[t].request
                   /\ Count(events', t, "ai:complete") = 0
             /\ (t \in Turns /\ turns[t].pc = "json"
                 /\ turns'[t].pc = "done") =>
                   IF turns'[t].outcome = "complete"
                   THEN /\ Len(msgs') = Len(msgs) + 1
                        /\ SubSeq(msgs', 1, Len(msgs)) = msgs
                        /\ Last(msgs').role = "assistant"
                        /\ Last(msgs').content # << >>
                        /\ history' = Append(history, Len(msgs'))
                        /\ turns'[t].asst = Len(msgs')
                        /\ Count(events', t, "ai:complete") = 1
                   ELSE /\ turns'[t].outcome = "error"
                        /\ msgs' = msgs
                        /\ history' = history
                        /\ turns'[t].asst = 0
                        /\ Count(events', t, "ai:complete") = 0]_vars

\* a call without streaming was answered with an empty content: history
\* is the user message and one assistant message with the fallback text
NonStreamingTurnWitness ==
    /\ Len(turns) = 1
    /\ turns[1].ended = "json"
    /\ turns[1].outcome = "complete"
    /\ Len(msgs) = 2
    /\ history = <<1, 2>>
    /\ msgs[2].role = "assistant"
    /\ msgs[2].content = AiContent(<< >>)
    /\ Count(events, 1, "ai:complete") = 1
    /\ Count(events, 1, "ai:streaming") = 0
    /\ ~isLoading

\* turn t completes in this step
Completes(t) ==
    /\ turns[t].pc # "done"
    /\ turns'[t].pc = "done"
    /\ turns'[t].outcome = "complete"

\* C23: a completed turn is persisted, and a failing storage write costs
\* nothing but the write.  At the step that completes a turn the complete
\* notification is emitted once and the assistant message of the turn is
\* in history, with the content of the notification when it is the last
\* assistant message; currentChatId is set; when the storage takes the
\* write, the chat saved under currentChatId is the history by value, and
\* when it refuses it, the saved chats and the working copy stay as they
\* were.
CompletePersisted ==
    [][\A t \in Turns :
          Completes(t)
          => LET asst == turns'[t].asst IN
             /\ Count(events', t, "ai:complete") = 1
             /\ \E i \in 1..Len(history') : history'[i] = asst
             /\ msgs'[asst].role = "assistant"
             /\ \A i \in 1..Len(events') :
                   (/\ events'[i].type = "ai:complete"
                    /\ events'[i].turn = t
                    /\ Last(history') = asst)
                   => msgs'[asst].content = events'[i].content
             /\ currentChatId' # 0
             /\ IF storageFull
                THEN savedChats' = savedChats /\ stored' = stored
                ELSE /\ currentChatId' \in 1..Len(savedChats')
                     /\ savedChats'[currentChatId']
                           = Snapshot(history', msgs')]_vars

\* a streaming turn completed while the storage refused every write since
\* the answer began: no chat is saved and the working copy still has the
\* empty placeholder, but the message in memory has its content and the
\* complete notification was emitted
CompletePersistedWitness ==
    /\ Len(turns) = 1
    /\ turns[1].outcome = "complete"
    /\ turns[1].ended = "close"
    /\ storageFull
    /\ savedChats = << >>
    /\ currentChatId = 1
    /\ history = <<1, 2>>
    /\ msgs[2].content = <<"a">>
    /\ stored = <<msgs[1], [msgs[2] EXCEPT !.content = << >>]>>
    /\ Count(events, 1, "ai:complete") = 1

Terminal == {"complete", "error", "cancelled"}

\* C24: every accepted turn terminates.  When every pending fetch, read
\* and response settles, each accepted call of sendUserMessage ends; it
\* ends once, as complete, error or cancelled, and stays so; and at the
\* step that ends it isLoading becomes false and the cancellation handle
\* null, so that sendUserMessage is not rejected as busy.
EveryTurnTerminates ==
    /\ \A t \in 1..MaxLiveTurns :
          (t \in Turns) ~> (t \in Turns /\ turns[t].pc = "done")
    /\ [][\A t \in Turns :
             /\ turns[t].pc = "done" =>
                   /\ turns'[t].pc = "done"
                   /\ turns'[t].outcome = turns[t].outcome
             /\ (turns[t].pc # "done" /\ turns'[t].pc = "done") =>
                   /\ turns'[t].outcome \in Terminal
                   /\ ~isLoading'
                   /\ currentAbortController' = 0
                   /\ Count(events', t, "loading:end")
                         = Count(events, t, "loading:end") + 1]_vars

\* two turns have ended, the first cancelled while its body was read, the
\* second complete, and the session is idle
EveryTurnTerminatesWitness ==
    /\ Len(turns) = 2
    /\ \A t \in Turns : turns[t].pc = "done"
    /\ turns[1].outcome = "cancelled"
    /\ msgs[turns[1].asst].content # << >>
    /\ turns[2].outcome = "complete"
    /\ ~isLoading
    /\ currentAbortController = 0

\* the longest prefix of the lines of the body of turn t whose newline the
\* reads made so far have delivered
Arrived(t) ==
    LET all == turns[t].lines
        read == Len(Text(all, turns[t].terminated)) - Len(turns[t].wire)
        whole == { k \in 0..Len(all) :
                     Len(Text(SubSeq(all, 1, k), TRUE)) <= read }
    IN SubSeq(all, 1, Max(whole))

\* C25: usage is kept for the complete notification only.  While the body
\* of a turn is read, the notifications of the turn are those of the content,
\* sources and processing lines that arrived (a line that carries only usage
\* adds none) and none of them carries usage; and when the turn ends without
\* error, by [DONE], by the close of the transport or by cancellation, its
\* single complete notification carries the usage of the last decoded line
\* that had one, null (0) when there is none.
UsageOnlyOnComplete ==
    /\ [][\A t \in Turns :
             (/\ turns[t].pc \in {"fetch", "read"}
              /\ turns'[t].pc = "done"
              /\ turns'[t].ended \in {"done", "close", "AbortError"}
              /\ turns'[t].outcome # "error") =>
                LET handled ==
                        IF turns'[t].ended = "AbortError"
                        THEN Decoded(Arrived(t))
                        ELSE Decoded(turns[t].lines)
                    complete ==
                        { i \in 1..Len(events') :
                            /\ events'[i].turn = t
                            /\ events'[i].type = "ai:complete" }
                IN /\ Cardinality(complete) = 1
                   /\ \A i \in complete :
                         events'[i].usage = UsageOf(handled)]_vars
    /\ [](\A t \in Turns :
             /\ \A i \in 1..Len(events) :
                   (events[i].turn = t /\ events[i].type # "ai:complete")
                       => events[i].usage = 0
             /\ \A i \in 1..Len(turns[t].calls) :
                   turns[t].calls[i].cb # "onComplete"
                       => turns[t].calls[i].usage = 0
             /\ turns[t].pc = "read" =>
                   NotesOf(t) = BodyNotes(Arrived(t), TRUE, {}))

\* a turn cancelled after a line with usage 1 and a line with usage 2 were
\* decoded: no notification before the complete one, which carries usage 2
UsageOnlyOnCompleteWitness ==
    \E t \in Turns :
        /\ turns[t].pc = "done"
        /\ turns[t].ended = "AbortError"
        /\ turns[t].lines = <<Usage1, Usage2>>
        /\ \E i \in EventsOf(t, "ai:complete") : events[i].usage = 2
        /\ NotesOf(t) = << >>

\* a line that is not a data line: a comment, a blank line or another field
IsNonDataLine(line) == ~IsDataLine(line)

\* a comment line with the text of the processing heartbeat
IsHeartbeat(line) ==
    /\ Trim(line) # << >>
    /\ Head(Trim(line)) = ":"
    /\ \E i \in 1..Len(Trim(line)) : Trim(line)[i] = "PROC"

\* the positions of the lines of a body up to the first one that ends the
\* decode
RECURSIVE Reached(_, _)
Reached(lines, k) ==
    IF k > Len(lines) THEN {}
    ELSE {k} \cup (IF IsSentinelLine(lines[k]) \/ IsErrorLine(lines[k])
                   THEN {} ELSE Reached(lines, k + 1))

WithoutNonData(lines) == SelectSeq(lines, IsDataLine)

WithoutProcessing(calls) ==
    SelectSeq(calls, LAMBDA c : c.cb # "onProcessing")

RequestBuiltBeforePlaceholder ==
    [][(/\ Len(turns') = Len(turns) + 1
        /\ Last(turns').stream) =>
          LET turn == Last(turns')
              n == Len(history)
              request == turn.request
          IN /\ Len(history') = n + 2
             /\ SubSeq(history', 1, n) = history
             /\ history'[n + 1] = turn.user
             /\ history'[n + 2] = turn.asst
             /\ turn.user < turn.asst
             /\ msgs'[turn.user].role = "user"
             /\ msgs'[turn.asst].role = "assistant"
             /\ msgs'[turn.asst].content = << >>
             /\ Len(request) = n + 2
             /\ request[1].role = "system"
             /\ request[1].content.text = SystemPrompt
             /\ \A i \in 1..(n + 1) :
                   /\ request[i + 1].role = msgs'[history'[i]].role
                   /\ request[i + 1].content
                         = RequestContent(msgs'[history'[i]])
             /\ Last(request).role = "user"]_vars

\* the second streaming send of a session, after a first turn that was
\* answered: the request has the system prompt, the first question, the
\* first answer and the new question, and the history ends with the
\* placeholder
RequestBuiltBeforePlaceholderWitness ==
    /\ Len(turns) = 2
    /\ turns[1].outcome = "complete"
    /\ turns[1].stream
    /\ turns[2].stream
    /\ turns[2].pc = "fetch"
    /\ Len(turns[2].request) = 4
    /\ turns[2].request[3].role = "assistant"
    /\ turns[2].request[3].content.text # << >>
    /\ Len(history) = 4
    /\ Last(history) = turns[2].asst
    /\ msgs[turns[2].asst].content = << >>

\* C28: each Citation carries the url and the title of its url_citation
\* annotation, and startIndex/endIndex equal to the start_index/end_index
\* inside the url_citation object.  Every source handed to onAnnotations or
\* onComplete has the url, the title (when it has one) and the two indices
\* of the url_citation object of an annotation of the body.
CitationCarriesIndices ==
    \A t \in Turns : \A i \in 1..Len(turns[t].calls) :
        \A j \in 1..Len(turns[t].calls[i].sources) :
            LET source == turns[t].calls[i].sources[j]
                as == FirstSeen(BodyAnnotations(turns[t].lines), {})
            IN \E k \in 1..Len(as) :
                  /\ source.url = as[k].url
                  /\ as[k].title # "" => source.title = as[k].title
                  /\ source.startIndex = as[k].c_start
                  /\ source.endIndex = as[k].c_end

\* C29: a cancelled turn publishes one cancelled notification that carries
\* the partial content.  The step that aborts the request of a streaming
\* turn emits exactly one ai:cancelled notification, whose content is the
\* content the placeholder of the turn has accumulated, and no later step
\* emits another one for the turn.
CancelledCarriesPartial ==
    /\ [][\A t \in Turns :
             (turns[t].stream /\ ~turns[t].aborted /\ turns'[t].aborted) =>
                LET cancelled ==
                        { i \in (Len(events) + 1)..Len(events') :
                            events'[i].type = "ai:cancelled" }
                IN /\ Cardinality(cancelled) = 1
                   /\ \A i \in cancelled :
                         events'[i].content
                            = msgs[turns[t].asst].content]_vars
    /\ [](\A t \in Turns :
             Cardinality(EventsOf(t, "ai:cancelled")) <= 1)

\* the number of calls of the callback id that emit made for its n-th event
CallsFor(b, n, id) ==
    Cardinality({ i \in 1..Len(b.calls) :
                    b.calls[i].event = n /\ b.calls[i].sub = id })

\* C30: publishing a notification never disturbs the fold loop.  No
\* exception of a subscriber leaves emit; at every step, each notification
\* emitted calls once every callback subscribed to its event, throwing or
\* not, the wrapper of once not being subscribed any longer after its
\* callback returned, and calls nothing else; and a turn whose body was
\* read through has made the callbacks of its body and holds the content of
\* its complete notification.
EmitIsolatesSubscribers ==
    /\ [](~bus.escaped)
    /\ [][LET new == (Len(events) + 1)..Len(events')
              before == Len(bus.calls)
          IN /\ Len(bus'.calls) >= before
             /\ SubSeq(bus'.calls, 1, before) = bus.calls
             /\ \A n \in new : \A i \in 1..Len(bus.subs) :
                   LET s == bus.subs[i]
                       earlier == \E m \in new :
                                     m < n /\ events'[m].type = s.event
                   IN CallsFor(bus', n, s.id)
                         = IF s.event # events'[n].type THEN 0
                           ELSE IF s.once /\ ~s.throws /\ earlier THEN 0
                           ELSE 1
             /\ \A i \in (before + 1)..Len(bus'.calls) :
                   /\ bus'.calls[i].event \in new
                   /\ bus'.calls[i].sub \in Registered(bus)]_vars
    /\ [](\A t \in Turns :
             (ReadThrough(t) /\ turns[t].stream) =>
                /\ turns[t].calls
                      = LinePerChunk(turns[t].lines, turns[t].terminated)
                /\ turns[t].outcome = "complete"
                /\ \A i \in EventsOf(t, "ai:complete") :
                      events[i].content = <<"a", "b">>)

\* a turn completed after a throwing listener and then a once listener of
\* the streaming notification had subscribed: both streaming notifications
\* reached the first, and the first of them alone the second, right after
\* the first listener threw; the second is no longer subscribed
EmitIsolatesSubscribersWitness ==
    \E t \in Turns :
        /\ ReadThrough(t)
        /\ turns[t].outcome = "complete"
        /\ [i \in 1..Len(bus.subs) |-> bus.subs[i].id] = <<1>>
        /\ Cardinality(EventsOf(t, "ai:streaming")) = 2
        /\ \A i \in EventsOf(t, "ai:streaming") : CallsFor(bus, i, 1) = 1
        /\ \E i, j \in EventsOf(t, "ai:streaming") :
              /\ i < j
              /\ CallsFor(bus, i, 2) = 1
              /\ CallsFor(bus, j, 2) = 0
              /\ \E k \in 1..(Len(bus.calls) - 1) :
                    /\ bus.calls[k] = [event |-> i, sub |-> 1]
                    /\ bus.calls[k + 1] = [event |-> i, sub |-> 2]

\* C31: the isLoading flag and the cancellation handle belong to the turn in
\* flight.  While a turn that was not cancelled has not ended, isLoading is
\* true and the cancellation handle is the controller of that turn, whatever
\* earlier cancelled turns do when they unwind.
FlagsBelongToTurnInFlight ==
    \A t \in Turns :
        (turns[t].pc # "done" /\ ~turns[t].aborted) =>
            /\ isLoading
            /\ currentAbortController = t

\* C32: regenerateLastResponse and editAndResend are atomic with respect to
\* rejection.  When the sendUserMessage they call is rejected, as busy or
\* as empty, the history and the working copy in storage are what they were
\* before the call.
ResendAtomicOnRejection ==
    [][((\/ RegenerateLastResponse(MaxEditTurns, MaxTruncations)
         \/ \E messageId \in 1..(Len(msgs) + 1), newContent \in UserTexts :
               EditAndResend(MaxEditTurns, MaxTruncations, messageId,
                             newContent))
        /\ ret'.result \in SendRejections)
       => /\ history' = history
          /\ stored' = stored]_vars

\* turn t was accepted before the last call of clearHistory or
\* loadChatHistory
Stale(t) ==
    \E i, j \in 1..Len(events) :
        /\ i < j
        /\ events[i].type = "loading:start" /\ events[i].turn = t
        /\ events[j].type \in {"chat:cleared", "chat:loaded"}

\* C33: a turn in flight when clearHistory or loadChatHistory is called
\* never touches the new conversation.  No later step of such a turn
\* changes the content or the sources of a message of the history, stores
\* a saved chat or changes currentChatId.
StaleTurnLeavesNewConversation ==
    [][\A t \in Turns :
          (Stale(t) /\ turns[t].pc # "done" /\ turns'[t] # turns[t]) =>
             /\ \A i \in 1..Len(history) :
                   /\ msgs'[history[i]].content = msgs[history[i]].content
                   /\ msgs'[history[i]].sources = msgs[history[i]].sources
             /\ savedChats' = savedChats
             /\ currentChatId' = currentChatId]_vars

\* C34: regeneration does not duplicate the user turn.  When
\* regenerateLastResponse is accepted, the history is the messages that
\* preceded the removed assistant message followed by one new assistant
\* message, and it has as many user messages as before the call.
RegenerateKeepsUserCount ==
    [][(/\ RegenerateLastResponse(MaxEditTurns, MaxTruncations)
        /\ ret'.result = "pending") =>
          LET kept == SubSeq(history, 1, LastAssistantIndex - 1)
              users(h, m) == { i \in 1..Len(h) : m[h[i]].role = "user" }
          IN /\ history' = kept \o <<Last(turns').asst>>
             /\ Cardinality(users(history', msgs'))
                   = Cardinality(users(history, msgs))]_vars

\* the positions in the event log of the terminal notifications of turn t
TerminalEvents(t) ==
    { i \in 1..Len(events) :
         events[i].turn = t /\ events[i].type \in {"ai:complete", "ai:error"} }

\* C35: each accepted streaming turn ends with exactly one terminal
\* notification, complete or error and never both: there is never more
\* than one, there is one when the turn has ended, and no streaming,
\* sources-updated or processing notification of the turn follows it.
OneTerminalNotification ==
    \A t \in Turns :
       turns[t].stream =>
          /\ Cardinality(TerminalEvents(t)) <= 1
          /\ turns[t].pc = "done" => Cardinality(TerminalEvents(t)) = 1
          /\ \A i \in TerminalEvents(t) : \A j \in (i + 1)..Len(events) :
                events[j].turn = t =>
                   events[j].type \notin {"ai:streaming", "ai:sources:updated",
                                          "ai:processing"}

\* C35 witness: a streaming turn that notified content and then ended with
\* an error while lines of its response were still unread
OneTerminalNotificationWitness ==
    \E t \in Turns :
       /\ turns[t].stream /\ turns[t].pc = "done"
       /\ \E i \in TerminalEvents(t) :
             /\ events[i].type = "ai:error"
             /\ \E j \in 1..(i - 1) :
                   events[j].turn = t /\ events[j].type = "ai:streaming"

\* the loading notifications of the event log, in order
LoadingEvents ==
    SelectSeq(events, LAMBDA e : e.type \in {"loading:start", "loading:end"})

\* C36: loading notifications are balanced.  Every accepted sendUserMessage
\* emits one loading:start and, whatever its outcome, one loading:end, and
\* a rejected one emits neither: the loading notifications of a run are as
\* many starts as accepted turns and alternate start, end, start, end.
LoadingBalanced ==
    /\ Cardinality({ k \in 1..Len(LoadingEvents) :
                        LoadingEvents[k].type = "loading:start" })
          = Len(turns)
    /\ \A k \in 1..Len(LoadingEvents) :
          LoadingEvents[k].type =
             IF k % 2 = 1 THEN "loading:start" ELSE "loading:end"

\* C37: the session's message tracks the decoder's accumulator.  In the
\* state a streaming notification of a turn leaves, the turn's placeholder
\* is in history with the accumulated content just notified; in the state
\* the turn's complete notification leaves, the placeholder's content is
\* the concatenation, in order, of the content deltas of the turn and its
\* sources are the decoder's de-duplicated citation list.
MessageTracksAccumulator ==
    [][\A t \in Turns :
          LET asst == turns[t].asst
              new == { i \in (Len(events) + 1)..Len(events') :
                          events'[i].turn = t }
          IN /\ (/\ turns[t].stream
                 /\ Len(events') > Len(events)
                 /\ events'[Len(events')].type = "ai:streaming"
                 /\ events'[Len(events')].turn = t) =>
                    /\ \E k \in 1..Len(history') : history'[k] = asst
                    /\ msgs'[asst].content = events'[Len(events')].content
             /\ (/\ turns[t].stream
                 /\ \E i \in new : events'[i].type = "ai:complete") =>
                    /\ msgs'[asst].content = DeltasOf(turns'[t].calls)
                    /\ msgs'[asst].sources = turns'[t].d.annotations]_vars

\* C38: when cancelCurrentRequest returned true the request in flight is
\* stopped, in streaming and in non-streaming mode alike.  No step of a
\* turn that was cancelled adds to the content the turn has accumulated,
\* and none appends an assistant message to history.
CancelStopsRequest ==
    [][\A t \in Turns :
          (/\ turns[t].aborted
           /\ turns[t].pc # "done"
           /\ turns'[t] # turns[t]) =>
              /\ turns'[t].d.fullContent = turns[t].d.fullContent
              /\ \A k \in 1..Len(history') :
                    msgs'[history'[k]].role = "assistant" =>
                       \E j \in 1..Len(history) : history[j] = history'[k]]_vars

====
